---- MODULE Spec2Model ----
(***************************************************************************)
(* Model of gowool/got: the Theme (theme.go) with its compiled-unit cache, *)
(* function registry, debug flag and parent link, the dependency resolver  *)
(* (findByName / findByTemplate / find) and the unit assembler             *)
(* (buildTemplate), on top of a template source consumed through           *)
(* Storage.Find.                                                           *)
(*                                                                         *)
(* A template record is [theme, name, path, refs]: refs is the list of     *)
(* names that templateRe finds in the content, in order of occurrence.     *)
(* The body of a record is one literal, written <<theme, name>>, followed  *)
(* by its {{template "x"}} references; contents with {{define}} or         *)
(* {{block}} markers are outside the contents enumerated here.             *)
(***************************************************************************)
EXTENDS Integers, Sequences, FiniteSets, TLC

\* ------------------------------------------------------------------ domains
Themes == {"t1", "t2", "t3"}
Names == {"a", "b", "c"}
FuncNames == {"f"}
FuncVals == {1, 2}
Nil == "nil"

\* A function with an empty domain (an empty sync.Map / Go map).
Empty == [x \in {} |-> 0]

\* m overridden by f on f's keys (range over f, Store(k, v)).
UpdatedBy(m, f) ==
  [k \in (DOMAIN m) \cup (DOMAIN f) |-> IF k \in DOMAIN f THEN f[k] ELSE m[k]]

\* All registries a caller can pass: partial maps FuncNames -> FuncVals.
FuncMaps == UNION {[D -> FuncVals] : D \in SUBSET FuncNames}

VARIABLES
  storage,   \* storage[t][n]: what t.storage.Find(ctx, t.name, n) returns
  debug,     \* debug[t]: Theme.debug
  funcMap,   \* funcMap[t]: Theme.funcMap
  parent,    \* parent[t]: Theme.parent (a theme or Nil)
  cache,     \* cache[t]: Theme.cache, name -> compiled unit
  status,    \* "run", or how the process stopped: "overflow", "hang", "panic"
  ret,       \* the last call and what it returned
  seen,      \* seen[t]: names written successfully with debug off since the
             \* last configuration call that reached t
  chain,     \* StoreChain.stores: the stores of a chain, in order
  templates, \* StoreMemory.templates: key -> record
  procs      \* the calls in progress on other goroutines, each at its step

vars == <<storage, debug, funcMap, parent, cache, status, ret, seen, chain,
          templates, procs>>

\* ------------------------------------------------------------------- errors
\* An error value: the kinds errors.Is can find in its chain, the theme and
\* name of the outermost message, and the storage errors it wraps, in order.
NoErr == [kinds |-> {}, theme |-> "", name |-> "", causes |-> <<>>]
NotFound == "NotFound"
Failure == "Failure"

\* errors.Is(err, ErrTemplateNotFound)
IsNotFound(err) == NotFound \in err.kinds

\* ----------------------------------------------------------------- storage
\* What a source returns for a name: a record, a NotFound-kind error, or an
\* error of another kind (an I/O failure of the backend). bad tells that
\* the content of the record is not a well-formed template: Parse fails.
NF == [kind |-> "nf", path |-> "", refs |-> <<>>, bad |-> FALSE]
FAIL == [kind |-> "fail", path |-> "", refs |-> <<>>, bad |-> FALSE]
Rec(p, r) == [kind |-> "rec", path |-> p, refs |-> r, bad |-> FALSE]
BadRec(p, r) == [kind |-> "rec", path |-> p, refs |-> r, bad |-> TRUE]

\* newTemplate(theme, name, content): the record a source builds for a
\* content with declared path e.path ("" when there is no leading marker,
\* so that path defaults to name) and references e.refs.
newTemplate(t, n, e) ==
  [theme |-> t, name |-> n,
   path |-> IF e.path = "" THEN n ELSE e.path,
   refs |-> e.refs,
   bad |-> e.bad]

\* The error a source returns for (t, n).
storageErr(t, n, e) ==
  [kinds |-> {IF e.kind = "nf" THEN NotFound ELSE Failure},
   theme |-> t, name |-> n,
   causes |-> << <<t, IF e.kind = "nf" THEN NotFound ELSE Failure>> >>]

\* The parent chain of t under the parent relation par (t excluded), as a
\* set; defined for every relation, cyclic ones included.
RECURSIVE AncestorsFrom(_, _, _)
AncestorsFrom(par, t, acc) ==
  IF par[t] = Nil \/ par[t] \in acc THEN acc
  ELSE AncestorsFrom(par, par[t], acc \cup {par[t]})
Ancestors(par, t) == AncestorsFrom(par, t, {})

\* The chain from t runs into a cycle: the cascade of reset never returns.
RECURSIVE CyclicFrom(_, _, _)
CyclicFrom(par, t, acc) ==
  IF par[t] = Nil THEN FALSE
  ELSE IF par[t] \in acc THEN TRUE
  ELSE CyclicFrom(par, par[t], acc \cup {par[t]})
Cyclic(par, t) == CyclicFrom(par, t, {t})

\* ------------------------------------------------------------ Theme.find
\* Returns [item, err, finds]: finds lists the Storage.Find calls made.
RECURSIVE find(_, _)

\* The record found in the own source.
found(t, name, e) ==
  [item |-> newTemplate(t, name, e), err |-> NoErr, finds |-> << <<t, name>> >>]

\* "fmt.Errorf(... %w, err)": the error find returns, naming the theme it
\* started on; kinds and causes are those of the wrapped error.
wrapped(t, name, kinds, causes, finds) ==
  [item |-> NF,
   err |-> [kinds |-> kinds, theme |-> t, name |-> name, causes |-> causes],
   finds |-> finds]

\* What find makes of the parent's answer r after the own error err0: the
\* parent's record, or the two errors joined.
fromParent(t, name, err0, r) ==
  IF r.err = NoErr
  THEN [item |-> r.item, err |-> NoErr, finds |-> << <<t, name>> >> \o r.finds]
  ELSE wrapped(t, name, err0.kinds \cup r.err.kinds,
               err0.causes \o r.err.causes, << <<t, name>> >> \o r.finds)

\* The parent's answer returned as it is, without joining it with the own
\* source's error and without naming the theme find started on.
fromParentUnjoined(t, name, err0, r) ==
  [item |-> r.item, err |-> r.err, finds |-> << <<t, name>> >> \o r.finds]

\* The own source's error returned when there is no parent to ask.
ownError(t, name, err0) ==
  wrapped(t, name, err0.kinds, err0.causes, << <<t, name>> >>)

\* find without the parent fallback.
findLocalOnly(t, name) ==
  LET e == storage[t][name]
  IN IF e.kind = "rec" THEN found(t, name, e)
     ELSE ownError(t, name, storageErr(t, name, e))

\* find that asks the parent after every error of the own source.
findAfterAnyError(t, name) ==
  LET e == storage[t][name]
  IN IF e.kind = "rec" THEN found(t, name, e)
     ELSE IF parent[t] # Nil
     THEN fromParent(t, name, storageErr(t, name, e), find(parent[t], name))
     ELSE ownError(t, name, storageErr(t, name, e))

\* find that returns the parent's error as it is.
findParentError(t, name) ==
  LET e == storage[t][name]
  IN IF e.kind = "rec" THEN found(t, name, e)
     ELSE IF IsNotFound(storageErr(t, name, e)) /\ parent[t] # Nil
     THEN fromParentUnjoined(t, name, storageErr(t, name, e), find(parent[t], name))
     ELSE ownError(t, name, storageErr(t, name, e))

find(t, name) ==
  LET e == storage[t][name]
  IN IF e.kind = "rec" THEN found(t, name, e)
     ELSE IF IsNotFound(storageErr(t, name, e)) /\ parent[t] # Nil
     THEN fromParent(t, name, storageErr(t, name, e), find(parent[t], name))
     ELSE ownError(t, name, storageErr(t, name, e))

\* ------------------------------------- Theme.findByName / findByTemplate
\* The resolver state st is [data, finds, err]: the dependency set, the
\* Storage.Find calls so far, and the error of the last call.
RECURSIVE findByName(_, _, _)
RECURSIVE findByTemplate(_, _, _)
RECURSIVE findRefs(_, _, _, _)

\* findByName that puts the record into data under its declared path.
findByNameFoundUnderPath(t, st, name, r) ==
  IF r.err # NoErr
  THEN [st EXCEPT !.err = r.err, !.finds = @ \o r.finds]
  ELSE findByTemplate(t,
         [data |-> UpdatedBy(st.data, [k \in {r.item.path} |-> r.item]),
          finds |-> st.finds \o r.finds,
          err |-> NoErr],
         r.item)

\* findByName after t.find answered r: the error is returned, or the record
\* is put into data and its own dependencies are resolved.
findByNameFound(t, st, name, r) ==
  IF r.err # NoErr
  THEN [st EXCEPT !.err = r.err, !.finds = @ \o r.finds]
  ELSE findByTemplate(t,
         [data |-> UpdatedBy(st.data, [k \in {name} |-> r.item]),
          finds |-> st.finds \o r.finds,
          err |-> NoErr],
         r.item)

\* findByName that asks t.find for the name before it looks into the set.
findByNameLooksUpFirst(t, st, name) ==
  IF name \in DOMAIN st.data
  THEN [st EXCEPT !.err = NoErr, !.finds = @ \o find(t, name).finds]
  ELSE findByNameFound(t, st, name, find(t, name))

findByName(t, st, name) ==
  IF name \in DOMAIN st.data THEN [st EXCEPT !.err = NoErr]
  ELSE findByNameFound(t, st, name, find(t, name))

\* The loop over the matches that returns every error of a lookup, NotFound
\* included.
findRefsStrict(t, st, refs, i) ==
  IF st.err # NoErr THEN st
  ELSE IF i > Len(refs) THEN [st EXCEPT !.err = NoErr]
  ELSE findRefs(t, findByName(t, st, refs[i]), refs, i + 1)

\* The loop over the matches of templateRe: st is the state after
\* refs[i - 1] (after the path lookup when i = 1), st.err the error of that
\* lookup. An error that is not NotFound ends the loop and is returned.
findRefs(t, st, refs, i) ==
  IF st.err # NoErr /\ ~IsNotFound(st.err) THEN st
  ELSE IF i > Len(refs) THEN [st EXCEPT !.err = NoErr]
  ELSE findRefs(t, findByName(t, st, refs[i]), refs, i + 1)

\* findByTemplate after the lookup of the declared path left s1: any error
\* of that lookup is returned.
findByTemplatePath(t, s1, item) ==
  IF s1.err # NoErr THEN s1 ELSE findRefs(t, s1, item.refs, 1)

\* findByTemplate that resolves the dependencies of a record on the theme
\* that supplied the record.
findByTemplateOnSupplier(t, st, item) ==
  findByTemplatePath(item.theme,
    IF item.path # item.name THEN findByName(item.theme, st, item.path)
    ELSE [st EXCEPT !.err = NoErr],
    item)

findByTemplate(t, st, item) ==
  findByTemplatePath(t,
    IF item.path # item.name THEN findByName(t, st, item.path)
    ELSE [st EXCEPT !.err = NoErr],
    item)


\* ---------------------------------------------------- Theme.buildTemplate
\* The path chase "for page.Path() != page.Name() { page = data[page.Path()] }".
\* stop is "" when the loop ends, "hang" when it revisits a record (it then
\* runs forever) and "panic" when data has no record for the path (a nil
\* Template is dereferenced).
RECURSIVE chase(_, _, _)

\* A chase that stays at the record it starts from.
chaseStaysAtRoot(data, page, visited) == [stop |-> "", page |-> page]

chase(data, page, visited) ==
  IF page.path = page.name THEN [stop |-> "", page |-> page]
  ELSE IF page.path \notin DOMAIN data THEN [stop |-> "panic", page |-> page]
  ELSE IF page.path \in visited THEN [stop |-> "hang", page |-> page]
  ELSE chase(data, data[page.path], visited \cup {page.path})

NoUnit == [entry |-> "", set |-> Empty, funcs |-> Empty]

\* What buildTemplate returns: [unit, err, finds, stop, data].
built(st, u, e, s) ==
  [unit |-> u, err |-> e, finds |-> st.finds, stop |-> s, data |-> st.data]

\* The error of template.Parse for a content that is not well formed. Every
\* record of the set is parsed; when several are bad, the one whose error
\* is returned depends on the iteration order of the map, so the error is
\* told only by its kind.
ParseErr == [kinds |-> {"Parse"}, theme |-> "", name |-> "", causes |-> <<>>]

\* The unit assembled once the chase c has ended: its entry template is
\* named after the record the chase ends at and has its body; every other
\* record of the set is registered under its own name.
buildChased(t, st, c) ==
  IF c.stop # "" THEN built(st, NoUnit, NoErr, c.stop)
  ELSE IF \E k \in DOMAIN st.data : st.data[k].bad
  THEN built(st, NoUnit, ParseErr, "")
  ELSE built(st, [entry |-> c.page.name, set |-> st.data, funcs |-> funcMap[t]],
             NoErr, "")

\* buildTemplate after the resolver left st.
buildResolved(t, name, st) ==
  IF st.err # NoErr THEN built(st, NoUnit, st.err, "")
  ELSE IF name \notin DOMAIN st.data
  THEN built(st, NoUnit,
             [kinds |-> {NotFound}, theme |-> t, name |-> name, causes |-> <<>>],
             "")
  ELSE buildChased(t, st, chase(st.data, st.data[name], {name}))

buildTemplate(t, name) ==
  buildResolved(t, name,
    findByName(t, [data |-> Empty, finds |-> <<>>, err |-> NoErr], name))

\* ------------------------------------------------- template.Execute
\* The names a body of the unit can reach through {{template}} actions.
RECURSIVE reach(_, _)
reach(unit, acc) ==
  LET more == UNION {{unit.set[n].refs[i] : i \in 1..Len(unit.set[n].refs)} :
                      n \in acc \cap DOMAIN unit.set}
  IN IF more \subseteq acc THEN acc ELSE reach(unit, acc \cup more)

\* Expansion of the body registered under n; stack holds the names being
\* expanded. Returns [ok, out]; ok is FALSE when the expansion recurses
\* into a name on the stack (the engine then gives up at its depth limit).
RECURSIVE expand(_, _, _)
RECURSIVE expandRefs(_, _, _, _, _)
expand(unit, n, stack) ==
  IF n \in stack THEN [ok |-> FALSE, out |-> <<>>]
  ELSE expandRefs(unit, unit.set[n].refs, 1, stack \cup {n},
                  << <<unit.set[n].theme, unit.set[n].name>> >>)

\* The expansion e of refs[i] appended to out.
expandedRef(unit, refs, i, stack, out, e) ==
  IF ~e.ok THEN [ok |-> FALSE, out |-> out \o e.out]
  ELSE expandRefs(unit, refs, i + 1, stack, out \o e.out)

expandRefs(unit, refs, i, stack, out) ==
  IF i > Len(refs) THEN [ok |-> TRUE, out |-> out]
  ELSE expandedRef(unit, refs, i, stack, out, expand(unit, refs[i], stack))

ExecErr(n) == [kinds |-> {"Execution"}, theme |-> "", name |-> n, causes |-> <<>>]

\* The result [err, out] of an expansion e of the entry template.
executed(unit, e) ==
  [err |-> IF e.ok THEN NoErr ELSE ExecErr(unit.entry), out |-> e.out]

\* Returns [err, out]. A reachable reference to a name the unit does not
\* define fails before anything is written.
Execute(unit) ==
  IF ~(reach(unit, {unit.entry}) \subseteq DOMAIN unit.set)
  THEN [err |-> ExecErr(unit.entry), out |-> <<>>]
  ELSE executed(unit, expand(unit, unit.entry, {}))

\* ---------------------------------------------- newTemplate on contents
\* A content is a sequence of tokens: the two delimiters of an HTML comment,
\* a blank, a line break, and a character that is none of these.
Tokens == {"<!--", "-->", " ", "\n", "x"}

\* \s of the regular expression, and the characters strings.TrimSpace cuts.
IsSpace(c) == c \in {" ", "\n"}

\* "^\s*": the index of the first token of s from i on that is not space.
RECURSIVE skipSpace(_, _)
skipSpace(s, i) ==
  IF i <= Len(s) /\ IsSpace(s[i]) THEN skipSpace(s, i + 1) ELSE i

\* "(.*?)-->" that lets the dot match a line break.
RECURSIVE dotAll(_, _)
dotAll(s, j) ==
  IF j > Len(s) THEN 0
  ELSE IF s[j] = "-->" THEN j
  ELSE dotAll(s, j + 1)

\* "(.*?)-->" from index j: the index of the first "-->" that only tokens
\* other than a line break separate from j, or 0 when there is none.
RECURSIVE lazyDot(_, _)
lazyDot(s, j) ==
  IF j > Len(s) THEN 0
  ELSE IF s[j] = "-->" THEN j
  ELSE IF s[j] = "\n" THEN 0
  ELSE lazyDot(s, j + 1)

\* The match of commentRe that starts with "<!--" at index i and ends with
\* the "-->" at index j (no match when j = 0): [ok, group, end].
commentMatch(s, i, j) ==
  IF j = 0 THEN [ok |-> FALSE, group |-> <<>>, end |-> 0]
  ELSE [ok |-> TRUE, group |-> SubSeq(s, i + 1, j - 1), end |-> j]

\* commentRe.FindStringSubmatch(s) once the leading space is skipped to i.
commentAt(s, i) ==
  IF i <= Len(s) /\ s[i] = "<!--" THEN commentMatch(s, i, lazyDot(s, i + 1))
  ELSE [ok |-> FALSE, group |-> <<>>, end |-> 0]

commentRe(s) == commentAt(s, skipSpace(s, 1))

\* strings.TrimSpace
RECURSIVE TrimLeft(_)
TrimLeft(s) == IF s # <<>> /\ IsSpace(Head(s)) THEN TrimLeft(Tail(s)) ELSE s
RECURSIVE TrimRight(_)
TrimRight(s) ==
  IF s # <<>> /\ IsSpace(s[Len(s)]) THEN TrimRight(SubSeq(s, 1, Len(s) - 1)) ELSE s
TrimSpace(s) == TrimRight(TrimLeft(s))

\* The record built from a content with match m of commentRe.
tmplOf(theme, name, content, m) ==
  IF m.ok
  THEN [theme |-> theme, name |-> name, path |-> TrimSpace(m.group),
        content |-> SubSeq(content, m.end + 1, Len(content))]
  ELSE [theme |-> theme, name |-> name, path |-> name, content |-> content]

\* newTemplate(theme, name, content) on a content given token by token.
tmpl(theme, name, content) == tmplOf(theme, name, content, commentRe(content))

\* -------------------------------------------------------------- Seq
\* Go's int, at a width of IntBits bits: sums and differences wrap, and
\* the quotient truncates toward zero.
IntBits == 20
MinInt == -(2 ^ (IntBits - 1))
MaxInt == 2 ^ (IntBits - 1) - 1
wrap(x) == ((x - MinInt) % (2 ^ IntBits)) + MinInt
abs(x) == IF x < 0 THEN -x ELSE x
quo(a, b) ==
  wrap(IF (a < 0) = (b < 0) THEN abs(a) \div abs(b) ELSE -(abs(a) \div abs(b)))

\* The two limits of the sanity checks.
SizeLimit == 2000
LastLimit == 100000

\* Where a call of Seq is: it returned nil or the slice, it stopped with a
\* run-time panic, or it is in its loop ("loop") with the slice seq, the
\* index i and the value val.
SeqNil == [kind |-> "nil", seq |-> <<>>, i |-> 0, val |-> 0, inc |-> 0, last |-> 0]

\* The end of an iteration of the loop: the test that breaks it, and i++.
seqStep(l) ==
  IF (l.inc < 0 /\ l.val < l.last) \/ (l.inc > 0 /\ l.val > l.last)
  THEN [l EXCEPT !.kind = "slice"]
  ELSE [l EXCEPT !.i = l.i + 1]

\* One iteration of the loop: seq[i] = val, which panics when i is outside
\* the slice, then val += inc.
seqLoop(l) ==
  IF l.i >= Len(l.seq) THEN [l EXCEPT !.kind = "panic"]
  ELSE seqStep([l EXCEPT !.seq[l.i + 1] = l.val, !.val = wrap(l.val + l.inc)])

\* Seq once the size is computed: the second sanity check and make.
seqSized(first, inc, last, size) ==
  IF size <= 0 \/ size > SizeLimit THEN SeqNil
  ELSE [kind |-> "loop", seq |-> [k \in 1..size |-> 0], i |-> 0, val |-> first,
        inc |-> inc, last |-> last]

\* Seq once first, inc and last are set: the first sanity check and the size.
seqRange(first, inc, last) ==
  IF last < -LastLimit THEN SeqNil
  ELSE seqSized(first, inc, last, wrap(quo(wrap(last - first), inc) + 1))

\* internal.Seq(args...) up to the loop
internalSeq(args) ==
  IF Len(args) < 1 \/ Len(args) > 3 THEN SeqNil
  ELSE IF Len(args) = 1
  THEN IF args[1] = 0 THEN SeqNil
       ELSE IF args[1] > 0 THEN seqRange(1, 1, args[1])
       ELSE seqRange(-1, -1, args[1])
  ELSE IF Len(args) = 2
  THEN seqRange(args[1], IF args[2] < args[1] THEN -1 ELSE 1, args[2])
  ELSE IF args[2] = 0 THEN SeqNil
  ELSE IF args[1] < args[3] /\ args[2] < 0 THEN SeqNil
  ELSE IF args[1] > args[3] /\ args[2] > 0 THEN SeqNil
  ELSE seqRange(args[1], args[2], args[3])

\* ------------------------------------------------------ StoreMemory
\* The key StoreMemory keeps a record under: theme+name, both strings given
\* character by character.
key(theme, name) == theme \o name

\* StoreMemory.Add(theme, name, content): the map after the call.
storeMemoryAdd(tpls, theme, name, content) ==
  UpdatedBy(tpls, [k \in {key(theme, name)} |-> tmpl(theme, name, content)])

\* StoreMemory.Find(ctx, theme, name): [tpl, err]; tpl is meaningful when
\* err is NoErr.
storeMemoryFind(tpls, theme, name) ==
  IF key(theme, name) \in DOMAIN tpls
  THEN [tpl |-> tpls[key(theme, name)], err |-> NoErr]
  ELSE [tpl |-> tmpl(<<>>, <<>>, <<>>),
        err |-> [kinds |-> {NotFound}, theme |-> theme, name |-> name,
                 causes |-> <<>>]]

\* ------------------------------------------------------- StoreChain
\* A store of a chain: its identity and what its Find returns for the
\* template asked for: the record, a NotFound-kind error, or an error of
\* another kind.
StoreIds == {1, 2}
StorePool == {[id |-> i, kind |-> k] : i \in StoreIds, k \in {"rec", "nf", "fail"}}

\* The template asked for.
ChainTheme == "t1"
ChainName == "a"

\* The nil Template returned together with an error.
NoRecord == [theme |-> "", name |-> "", store |-> 0]

\* What store.Find returns: the record of the store or its error.
storeRecord(store) == [theme |-> ChainTheme, name |-> ChainName, store |-> store.id]
storeError(store) ==
  [kinds |-> {IF store.kind = "nf" THEN NotFound ELSE Failure},
   theme |-> ChainTheme, name |-> ChainName,
   causes |-> << <<store.id, store.kind>> >>]

\* "store chain: template %s/%s not found: %w" with ErrTemplateNotFound.
chainNotFound ==
  [kinds |-> {NotFound}, theme |-> ChainTheme, name |-> ChainName, causes |-> <<>>]

\* StoreChain.Find that goes on to the later stores after a store succeeded
\* and returns the record of the last one that did.
RECURSIVE StoreChainFindAll(_, _, _)
RECURSIVE StoreChainFind(_, _, _)
StoreChainFindAll(stores, i, asked) ==
  IF i > Len(stores)
  THEN IF \E k \in DOMAIN stores : stores[k].kind = "rec"
       THEN [tpl |-> storeRecord(stores[CHOOSE k \in DOMAIN stores :
                        /\ stores[k].kind = "rec"
                        /\ \A j \in DOMAIN stores : stores[j].kind = "rec" => j <= k]),
             err |-> NoErr, asked |-> asked]
       ELSE [tpl |-> NoRecord, err |-> chainNotFound, asked |-> asked]
  ELSE IF stores[i].kind = "fail"
  THEN [tpl |-> NoRecord, err |-> storeError(stores[i]), asked |-> Append(asked, stores[i])]
  ELSE StoreChainFindAll(stores, i + 1, Append(asked, stores[i]))

\* StoreChain.Find that takes every error of a store for NotFound and goes
\* on to the next store.
StoreChainFindSkipsFailures(stores, i, asked) ==
  IF i > Len(stores) THEN [tpl |-> NoRecord, err |-> chainNotFound, asked |-> asked]
  ELSE IF stores[i].kind = "rec"
  THEN [tpl |-> storeRecord(stores[i]), err |-> NoErr,
        asked |-> Append(asked, stores[i])]
  ELSE StoreChainFind(stores, i + 1, Append(asked, stores[i]))

\* StoreChain.Find that gives up at the first store that reports NotFound.
StoreChainFindStopsAtNotFound(stores, i, asked) ==
  IF i > Len(stores) THEN [tpl |-> NoRecord, err |-> chainNotFound, asked |-> asked]
  ELSE IF stores[i].kind = "rec"
  THEN [tpl |-> storeRecord(stores[i]), err |-> NoErr,
        asked |-> Append(asked, stores[i])]
  ELSE IF stores[i].kind = "fail"
  THEN [tpl |-> NoRecord, err |-> storeError(stores[i]),
        asked |-> Append(asked, stores[i])]
  ELSE [tpl |-> NoRecord, err |-> chainNotFound, asked |-> Append(asked, stores[i])]

\* StoreChain.Find from the i-th store on: [tpl, err, asked], asked being
\* the stores whose Find was called, in the order of the calls.
StoreChainFind(stores, i, asked) ==
  IF i > Len(stores) THEN [tpl |-> NoRecord, err |-> chainNotFound, asked |-> asked]
  ELSE IF stores[i].kind = "rec"
  THEN [tpl |-> storeRecord(stores[i]), err |-> NoErr,
        asked |-> Append(asked, stores[i])]
  ELSE IF stores[i].kind = "fail"
  THEN [tpl |-> NoRecord, err |-> storeError(stores[i]),
        asked |-> Append(asked, stores[i])]
  ELSE StoreChainFind(stores, i + 1, Append(asked, stores[i]))

\* ---------------------------------------------- configuration cascade
\* S is [debug, funcMap, cache]; par is the parent relation in force, which
\* is acyclic from t whenever these operators are applied.
RECURSIVE reset(_, _, _)
RECURSIVE addFuncMap(_, _, _, _)
RECURSIVE setDebug(_, _, _, _)

\* SetFuncMap that does not empty the registry first.
setFuncMapKeeps(S, par, t, F) == addFuncMap(S, par, t, F)

setFuncMap(S, par, t, F) ==
  addFuncMap([S EXCEPT !.funcMap[t] = Empty], par, t, F)

\* AddFuncMap that stores only the names the registry does not hold yet.
addFuncMapKeepsOld(S, par, t, F) ==
  reset([S EXCEPT !.funcMap[t] = UpdatedBy(F, @)], par, t)

addFuncMap(S, par, t, F) ==
  reset([S EXCEPT !.funcMap[t] = UpdatedBy(@, F)], par, t)

\* SetDebug that stores the flag without the cascade of reset.
setDebugNoReset(S, par, t, d) == [S EXCEPT !.debug[t] = d]

\* SetDebug that calls reset only when it switches the flag off.
setDebugOnKeepsCache(S, par, t, d) ==
  IF S.debug[t] = d THEN S
  ELSE IF d THEN [S EXCEPT !.debug[t] = d]
  ELSE reset([S EXCEPT !.debug[t] = d], par, t)

setDebug(S, par, t, d) ==
  IF S.debug[t] = d THEN S
  ELSE reset([S EXCEPT !.debug[t] = d], par, t)

\* A reset whose second call on the parent is left out: the parent keeps
\* its debug flag.
setParentDebugSkipped(S2, par, t) == S2

\* "parent.SetDebug(t.debug.Load())" on the themes S2 that the parent's
\* SetFuncMap left: the flag passed is the one t has then.
setParentDebug(S2, par, t) == setDebug(S2, par, par[t], S2.debug[t])

\* reset that leaves the cache as it is.
resetKeepsCache(S, par, t) ==
  IF par[t] = Nil THEN S
  ELSE setParentDebug(setFuncMap(S, par, par[t], S.funcMap[t]), par, t)

\* reset that merges the registry into the parent's instead of replacing it.
resetMerges(S, par, t) ==
  IF par[t] = Nil THEN [S EXCEPT !.cache[t] = Empty]
  ELSE setParentDebug(addFuncMap([S EXCEPT !.cache[t] = Empty], par, par[t],
                                 S.funcMap[t]), par, t)

\* reset that also clears the cache of the themes that have t as parent.
resetClearsChildren(S, par, t) ==
  LET S1 == [S EXCEPT !.cache = [u \in Themes |->
                        IF u = t \/ par[u] = t THEN Empty ELSE S.cache[u]]]
  IN IF par[t] = Nil THEN S1
     ELSE setParentDebug(setFuncMap(S1, par, par[t], S.funcMap[t]), par, t)

\* A cache without one of its entries.
oneEntryLess(c) ==
  IF DOMAIN c = {} THEN c
  ELSE [x \in DOMAIN c \ {CHOOSE n \in DOMAIN c : TRUE} |-> c[x]]

\* reset that removes one entry of the cache instead of all.
resetRemovesOneEntry(S, par, t) ==
  IF par[t] = Nil THEN [S EXCEPT !.cache[t] = oneEntryLess(@)]
  ELSE setParentDebug(setFuncMap([S EXCEPT !.cache[t] = oneEntryLess(@)],
                                 par, par[t], S.funcMap[t]), par, t)

\* reset that writes the registry and the flag into the parent and clears
\* the parent's cache, without the parent's own cascade.
resetStopsAtParent(S, par, t) ==
  IF par[t] = Nil THEN [S EXCEPT !.cache[t] = Empty]
  ELSE [S EXCEPT !.cache = [u \in Themes |->
                              IF u \in {t, par[t]} THEN Empty ELSE S.cache[u]],
                 !.funcMap[par[t]] = S.funcMap[t],
                 !.debug[par[t]] = S.debug[t]]

reset(S, par, t) ==
  IF par[t] = Nil THEN [S EXCEPT !.cache[t] = Empty]
  ELSE setParentDebug(setFuncMap([S EXCEPT !.cache[t] = Empty], par, par[t],
                                 S.funcMap[t]), par, t)


\* ------------------------------------------------------------- actions
\* The record of a call: its operation and receiver, the name written or
\* the debug value passed (for a Write, the debug flag it read), the
\* registry passed (F) and the registry the receiver held when it was
\* called (was), and for a Write the error returned, the bytes written, the
\* Storage.Find calls made and whether the cached unit was used; for
\* SetDebug whether the flag changed.
\* For a call that read a registry, "during" tells the configuration call
\* that was in progress on another goroutine at that moment: its operation,
\* receiver and argument, the registry the theme read held when it began
\* and the themes it reaches; NoDuring when there was none.
NoDuring == [op |-> "", t |-> "", F |-> Empty, was |-> Empty, reached |-> {}]

Call(op, t) ==
  [op |-> op, t |-> t, name |-> "", d |-> FALSE, F |-> Empty, was |-> Empty,
   err |-> NoErr, out |-> <<>>, finds |-> <<>>, hit |-> FALSE, changed |-> FALSE,
   during |-> NoDuring]

ThemeState == [debug |-> debug, funcMap |-> funcMap, cache |-> cache]

\* The themes a configuration call on t reaches: t and, through the
\* cascade of reset, its ancestors under the parent relation par.
Reached(par, t) == {t} \cup Ancestors(par, t)

\* What a Write does: what it returns (err, out), the Storage.Find calls it
\* makes, whether it used the cached unit, the debug flag it read, the unit
\* it stores in the cache (stored tells whether it stores one) and how it
\* stops the process when it does not return.
written(t, hit, e, o, f, u, st, sp) ==
  [err |-> e, out |-> o, finds |-> f, hit |-> hit, dbg |-> debug[t],
   unit |-> u, stored |-> st, stop |-> sp]

\* Write with the cached unit, executed with result x.
writeCached(t, name, x) ==
  written(t, TRUE, x.err, x.out, <<>>, cache[t][name], FALSE, "")

\* Write that stores the unit only after an execution without error.
writeExecutedStoresOnSuccess(t, b, store, x) ==
  written(t, FALSE, x.err, x.out, b.finds, b.unit, store /\ x.err = NoErr, "")

\* Write with the unit of b, stored when store holds, executed with result x.
writeExecuted(t, b, store, x) ==
  written(t, FALSE, x.err, x.out, b.finds, b.unit, store, "")

\* Write that stores what buildTemplate returned before it looks at the
\* error.
writeStoresFailedBuild(t, b, store) ==
  IF b.err # NoErr THEN written(t, FALSE, b.err, <<>>, b.finds, NoUnit, store, "")
  ELSE IF b.stop # ""
  THEN written(t, FALSE, NoErr, <<>>, b.finds, NoUnit, FALSE, b.stop)
  ELSE writeExecuted(t, b, store, Execute(b.unit))

\* Write once buildTemplate returned b: its error is returned, or the unit
\* is stored and executed.
writeBuilt(t, b, store) ==
  IF b.err # NoErr THEN written(t, FALSE, b.err, <<>>, b.finds, NoUnit, FALSE, "")
  ELSE IF b.stop # ""
  THEN written(t, FALSE, NoErr, <<>>, b.finds, NoUnit, FALSE, b.stop)
  ELSE writeExecuted(t, b, store, Execute(b.unit))

\* Theme.Write(ctx, w, name, data) as a function of the state; useCache and
\* store are the two tests of the debug flag read on entry.
writeWith(t, name, useCache, store) ==
  IF useCache /\ name \in DOMAIN cache[t]
  THEN writeCached(t, name, Execute(cache[t][name]))
  ELSE writeBuilt(t, buildTemplate(t, name), store)

\* Write that never looks into the cache.
writeIgnoresCache(t, name) == writeWith(t, name, FALSE, ~debug[t])

\* Write that stores the unit whatever the debug flag is.
writeAlwaysStores(t, name) == writeWith(t, name, ~debug[t], TRUE)

write(t, name) == writeWith(t, name, ~debug[t], ~debug[t])

Write(t, name) ==
  /\ status = "run"
  /\ \E w \in {write(t, name)} :
        /\ ret' = [Call("Write", t) EXCEPT !.name = name, !.d = w.dbg,
                     !.hit = w.hit, !.err = w.err, !.out = w.out, !.finds = w.finds]
        /\ status' = IF w.stop # "" THEN w.stop ELSE status
        /\ cache' = IF w.stored
                    THEN [cache EXCEPT ![t] = UpdatedBy(@, [k \in {name} |-> w.unit])]
                    ELSE cache
        /\ seen' = IF ~w.dbg /\ w.err = NoErr /\ w.stop = ""
                   THEN [seen EXCEPT ![t] = @ \cup {name}] ELSE seen
  /\ UNCHANGED <<storage, debug, funcMap, parent, chain, templates, procs>>

\* The common end of a configuration call on t that leaves the themes in S.
Configured(S, c) ==
  /\ debug' = S.debug
  /\ funcMap' = S.funcMap
  /\ cache' = S.cache
  /\ ret' = c
  /\ seen' = [u \in Themes |-> IF u \in Reached(parent', c.t) THEN {} ELSE seen[u]]
  /\ UNCHANGED <<storage, status, chain, templates, procs>>

\* Theme.SetDebug(debug)
SetDebug(t, d) ==
  /\ status = "run"
  /\ UNCHANGED parent
  /\ Configured(setDebug(ThemeState, parent, t, d),
                [Call("SetDebug", t) EXCEPT !.d = d, !.changed = (debug[t] # d)])

\* Theme.SetFuncMap(funcMap)
SetFuncMap(t, F) ==
  /\ status = "run"
  /\ UNCHANGED parent
  /\ Configured(setFuncMap(ThemeState, parent, t, F),
                [Call("SetFuncMap", t) EXCEPT !.F = F, !.was = funcMap[t]])

\* Theme.AddFuncMap(funcMap)
AddFuncMap(t, F) ==
  /\ status = "run"
  /\ UNCHANGED parent
  /\ Configured(addFuncMap(ThemeState, parent, t, F),
                [Call("AddFuncMap", t) EXCEPT !.F = F, !.was = funcMap[t]])

\* Theme.Clear()
Clear(t) ==
  /\ status = "run"
  /\ UNCHANGED parent
  /\ Configured(reset(ThemeState, parent, t), Call("Clear", t))

\* Theme.SetParent(parent). A parent link that closes a cycle makes reset
\* call itself without end: the goroutine's stack overflows.
SetParent(t, p) ==
  /\ status = "run"
  /\ parent' = [parent EXCEPT ![t] = p]
  /\ IF Cyclic(parent', t)
     THEN /\ status' = "overflow"
          /\ ret' = Call("SetParent", t)
          /\ UNCHANGED <<storage, debug, funcMap, cache, seen, chain, templates, procs>>
     ELSE Configured(reset(ThemeState, parent', t),
                     Call("SetParent", t))

\* ------------------------------------------------------ specifications
\* NewTheme(name, storage) for every theme.
InitThemes ==
  /\ debug = [t \in Themes |-> FALSE]
  /\ funcMap = [t \in Themes |-> Empty]
  /\ parent = [t \in Themes |-> Nil]
  /\ cache = [t \in Themes |-> Empty]
  /\ status = "run"
  /\ ret = Call("NewTheme", "")
  /\ seen = [t \in Themes |-> {}]
  /\ chain = <<>>
  /\ templates = Empty
  /\ procs = Empty

\* The themes the callers hold; t3 is a base theme that is only reached as
\* a parent (SetParent accepts it, the cascade and the fallback run into it).
Callers == {"t1", "t2"}

\* The sources of the configuration specification: every theme has its own
\* "a", which in t2 and t3 invokes "b"; t2 has a "b" that declares the path
\* "c", t3 has plain "b" and "c"; t1 has no "b" and a "c" that does not
\* parse.
LayeredStorage ==
  [t \in Themes |-> [n \in Names |->
     CASE n = "a" -> IF t = "t1" THEN Rec("", <<>>) ELSE Rec("", <<"b">>)
       [] n = "b" -> IF t = "t1" THEN NF
                     ELSE IF t = "t2" THEN Rec("c", <<>>) ELSE Rec("", <<>>)
       [] OTHER -> IF t = "t3" THEN Rec("", <<>>)
                   ELSE IF t = "t1" THEN BadRec("", <<>>) ELSE NF]]

\* The names written in the configuration specification.
WriteNames == {"a", "b"}

Init ==
  /\ storage = LayeredStorage
  /\ InitThemes

Next ==
  \/ \E t \in Callers, n \in WriteNames : Write(t, n)
  \/ \E t \in Callers, d \in BOOLEAN : SetDebug(t, d)
  \/ \E t \in Callers, F \in FuncMaps : SetFuncMap(t, F)
  \/ \E t \in Callers, F \in FuncMaps : AddFuncMap(t, F)
  \/ \E t \in Callers, p \in Themes \cup {Nil} : SetParent(t, p)
  \/ \E t \in Callers : Clear(t)

Spec == Init /\ [][Next]_vars

\* --------------------------------------------- execution specification
\* Sources with a unit that compiles and fails when executed: the "a" of t1
\* invokes "b", which only t3 has; t1 has a plain "c", t2 a plain "a".
BrokenStorage ==
  [t \in Themes |-> [n \in Names |->
     CASE t = "t1" /\ n = "a" -> Rec("", <<"b">>)
       [] t = "t1" /\ n = "c" -> Rec("", <<>>)
       [] t = "t2" /\ n = "a" -> Rec("", <<>>)
       [] t = "t3" /\ n = "b" -> Rec("", <<>>)
       [] OTHER -> NF]]

InitExecute ==
  /\ storage = BrokenStorage
  /\ InitThemes

NextExecute ==
  \/ \E t \in Callers, n \in Names : Write(t, n)
  \/ \E t \in Callers, d \in BOOLEAN : SetDebug(t, d)
  \/ \E t \in Callers, p \in Themes \cup {Nil} : SetParent(t, p)
  \/ \E t \in Callers : Clear(t)

SpecExecute == InitExecute /\ [][NextExecute]_vars

\* ---------------------------------------------- resolver specification
\* The contents a source may hold under name n, besides failing for it:
\* a leaf, one or two references, a declared path, and a body that
\* references itself.
NextName == [n \in Names |-> CASE n = "a" -> "b" [] n = "b" -> "c" [] OTHER -> "a"]
PrevName == [n \in Names |-> CASE n = "a" -> "c" [] n = "b" -> "a" [] OTHER -> "b"]
Shapes(n) ==
  << FAIL,
     Rec("", <<>>),
     Rec("", <<NextName[n]>>),
     Rec("", <<PrevName[n], NextName[n]>>),
     Rec(NextName[n], <<>>),
     Rec("", <<n>>) >>

\* At most MaxRecords of the names of t1 and t2 are not simply absent.
MaxRecords == 3
Cells == Callers \X Names

\* The sources of t1 and t2 are drawn from the shapes; the source of t3
\* answers every name alike, with NotFound or with a failure. The themes are
\* in the state after t1.SetParent(t2), t2.SetParent(t3), t1.SetDebug(true):
\* a chain of three in debug mode, so that every Write resolves anew.
InitResolve ==
  /\ \E P \in SUBSET Cells :
       /\ Cardinality(P) <= MaxRecords
       /\ \E f \in [P -> DOMAIN Shapes("a")], base \in {NF, FAIL} :
            storage = [t \in Themes |-> [n \in Names |->
                         IF t \notin Callers THEN base
                         ELSE IF <<t, n>> \in P THEN Shapes(n)[f[<<t, n>>]]
                         ELSE NF]]
  /\ debug = [t \in Themes |-> TRUE]
  /\ funcMap = [t \in Themes |-> Empty]
  /\ parent = [t \in Themes |->
                 CASE t = "t1" -> "t2" [] t = "t2" -> "t3" [] OTHER -> Nil]
  /\ cache = [t \in Themes |-> Empty]
  /\ status = "run"
  /\ ret = [Call("SetDebug", "t1") EXCEPT !.d = TRUE, !.changed = TRUE]
  /\ seen = [t \in Themes |-> {}]
  /\ chain = <<>>
  /\ templates = Empty
  /\ procs = Empty

NextResolve == \E t \in Callers, n \in Names : Write(t, n)

SpecResolve == InitResolve /\ [][NextResolve]_vars

\* ---------------------------------------------- template specification
\* The contents handed to newTemplate: every sequence of at most MaxContent
\* tokens.
MaxContent == 7
Contents == UNION {[1..k -> Tokens] : k \in 0..MaxContent}

\* The name the records are built under.
ContentName == <<"x", "x">>

\* A content is about to be added to a source under ContentName.
InitTemplate ==
  /\ storage = LayeredStorage
  /\ debug = [t \in Themes |-> FALSE]
  /\ funcMap = [t \in Themes |-> Empty]
  /\ parent = [t \in Themes |-> Nil]
  /\ cache = [t \in Themes |-> Empty]
  /\ status = "run"
  /\ seen = [t \in Themes |-> {}]
  /\ chain = <<>>
  /\ templates = Empty
  /\ procs = Empty
  /\ \E content \in Contents :
       ret = [op |-> "Add", content |-> content,
              tpl |-> Nil]

\* The source builds the record for the content.
NewTemplate ==
  /\ ret.op = "Add"
  /\ ret' = [ret EXCEPT !.op = "newTemplate",
                        !.tpl = tmpl("t1", ContentName, ret.content)]
  /\ UNCHANGED <<storage, debug, funcMap, parent, cache, status, seen, chain, templates, procs>>

NextTemplate == NewTemplate

SpecTemplate == InitTemplate /\ [][NextTemplate]_vars

\* ---------------------------------------------- registry specification
\* The registries passed in the registry specification: partial maps from
\* two function names.
RegistryNames == {"f", "g"}
RegistryMaps == UNION {[D -> FuncVals] : D \in SUBSET RegistryNames}

NextRegistry ==
  \/ \E t \in Callers, F \in RegistryMaps : SetFuncMap(t, F)
  \/ \E t \in Callers, F \in RegistryMaps : AddFuncMap(t, F)
  \/ \E t \in Callers, p \in Themes \cup {Nil} : SetParent(t, p)
  \/ \E t \in Callers : Clear(t)

SpecRegistry == Init /\ [][NextRegistry]_vars

\* ------------------------------------------------- chain specification
\* The longest chain, and the longest list NewStoreChain is given.
MaxStores == 3
MaxGiven == 1

\* The result field of a call that is not a Find.
NoFind == [tpl |-> NoRecord, err |-> NoErr, asked |-> <<>>]

\* NewStoreChain(stores...)
InitChain ==
  /\ storage = LayeredStorage
  /\ debug = [t \in Themes |-> FALSE]
  /\ funcMap = [t \in Themes |-> Empty]
  /\ parent = [t \in Themes |-> Nil]
  /\ cache = [t \in Themes |-> Empty]
  /\ status = "run"
  /\ seen = [t \in Themes |-> {}]
  /\ chain \in UNION {[1..k -> StorePool] : k \in 0..MaxGiven}
  /\ templates = Empty
  /\ procs = Empty
  /\ ret = [op |-> "NewStoreChain", found |-> NoFind]

\* StoreChain.Add(store)
ChainAdd(store) ==
  /\ Len(chain) < MaxStores
  /\ chain' = Append(chain, store)
  /\ ret' = [op |-> "Add", found |-> NoFind]
  /\ UNCHANGED <<storage, debug, funcMap, parent, cache, status, seen,
                 templates, procs>>

\* StoreChain.Find(ctx, theme, name)
ChainFind ==
  /\ ret' = [op |-> "Find", found |-> StoreChainFind(chain, 1, <<>>)]
  /\ UNCHANGED <<storage, debug, funcMap, parent, cache, status, seen, chain, templates, procs>>

NextChain ==
  \/ \E store \in StorePool : ChainAdd(store)
  \/ ChainFind

SpecChain == InitChain /\ [][NextChain]_vars

\* ------------------------------------------------ memory specification
\* The themes and names of the memory store: every string of at most
\* MaxString characters; the contents added; the most keys the map holds.
MemChars == {"a"}
MaxString == 2
MemStrings == UNION {[1..k -> MemChars] : k \in 0..MaxString}
MemContents == {<<"x">>, <<"x", "x">>}
MaxKeys == 3

\* NewStoreMemory()
InitMemory ==
  /\ storage = LayeredStorage
  /\ debug = [t \in Themes |-> FALSE]
  /\ funcMap = [t \in Themes |-> Empty]
  /\ parent = [t \in Themes |-> Nil]
  /\ cache = [t \in Themes |-> Empty]
  /\ status = "run"
  /\ seen = [t \in Themes |-> {}]
  /\ chain = <<>>
  /\ templates = Empty
  /\ procs = Empty
  /\ ret = [op |-> "NewStoreMemory", theme |-> <<>>, name |-> <<>>,
            content |-> <<>>, found |-> storeMemoryFind(Empty, <<>>, <<>>)]

\* StoreMemory.Add(theme, name, content)
MemoryAdd(theme, name, content) ==
  /\ key(theme, name) \in DOMAIN templates \/ Cardinality(DOMAIN templates) < MaxKeys
  /\ templates' = storeMemoryAdd(templates, theme, name, content)
  /\ ret' = [op |-> "Add", theme |-> theme, name |-> name, content |-> content,
             found |-> storeMemoryFind(Empty, <<>>, <<>>)]
  /\ UNCHANGED <<storage, debug, funcMap, parent, cache, status, seen, chain, procs>>

\* StoreMemory.Find(ctx, theme, name)
MemoryFind(theme, name) ==
  /\ ret' = [op |-> "Find", theme |-> theme, name |-> name, content |-> <<>>,
             found |-> storeMemoryFind(templates, theme, name)]
  /\ UNCHANGED <<storage, debug, funcMap, parent, cache, status, seen, chain,
                 templates, procs>>

NextMemory ==
  \/ \E theme \in MemStrings, name \in MemStrings, content \in MemContents :
       MemoryAdd(theme, name, content)
  \/ \E theme \in MemStrings, name \in MemStrings : MemoryFind(theme, name)

SpecMemory == InitMemory /\ [][NextMemory]_vars

\* ------------------------------------------- concurrent specification
\* Two goroutines work on the themes: one ("w") calls Write and FuncMap, the
\* other ("c") makes configuration calls. Every step is one operation on a
\* field of a theme (a Load, Store, Clear or Range of an atomic value or
\* sync.Map), so the steps of the two goroutines interleave freely.

\* A pending piece of a configuration call: a method call on theme t with
\* its arguments (the parent p, the flag d, the pairs F still to be stored),
\* or the rest of a reset.
Instr(op, t) == [op |-> op, t |-> t, p |-> Nil, d |-> FALSE, F |-> Empty]

\* The themes after a step, and the pieces the step puts before the rest.
stepped(S, push) == [S |-> S, push |-> push]

Restrict(F, k) == [x \in DOMAIN F \ {k} |-> F[x]]

\* The keys "for k, v := range funcMap" can take next.
rangeKeys(i) ==
  IF i.op = "AddFuncMap" /\ i.F # Empty THEN DOMAIN i.F ELSE {""}

\* One step of the piece i on the themes S = [debug, funcMap, cache, parent].
configStep(S, i, k) ==
  CASE i.op = "SetDebug" ->
         IF S.debug[i.t] = i.d THEN stepped(S, <<>>)
         ELSE stepped([S EXCEPT !.debug[i.t] = i.d], <<Instr("reset", i.t)>>)
    [] i.op = "SetParent" ->
         stepped([S EXCEPT !.parent[i.t] = i.p], <<Instr("reset", i.t)>>)
    [] i.op = "SetFuncMap" ->
         stepped([S EXCEPT !.funcMap[i.t] = Empty], <<[i EXCEPT !.op = "AddFuncMap"]>>)
    [] i.op = "AddFuncMap" ->
         IF i.F = Empty THEN stepped(S, <<Instr("reset", i.t)>>)
         ELSE stepped([S EXCEPT !.funcMap[i.t] = UpdatedBy(@, [x \in {k} |-> i.F[k]])],
                      <<[i EXCEPT !.F = Restrict(i.F, k)]>>)
    [] i.op = "Clear" -> stepped(S, <<Instr("reset", i.t)>>)
    [] i.op = "reset" ->
         stepped([S EXCEPT !.cache[i.t] = Empty],
                 <<[Instr("cascade", i.t) EXCEPT !.p = S.parent[i.t]]>>)
    [] i.op = "cascade" ->
         IF i.p = Nil THEN stepped(S, <<>>)
         ELSE stepped(S, <<[Instr("SetFuncMap", i.p) EXCEPT !.F = S.funcMap[i.t]],
                           [i EXCEPT !.op = "cascadeDebug"]>>)
    [] OTHER ->
         stepped(S, <<[Instr("SetDebug", i.p) EXCEPT !.d = S.debug[i.t]]>>)

\* The goroutines at rest.
IdleWriter ==
  [pc |-> "idle", t |-> "", name |-> "", dbg |-> FALSE, unit |-> NoUnit,
   finds |-> <<>>]
IdleConfig == [call |-> Call("", ""), todo |-> <<>>, was |-> Empty, reached |-> {}]

\* The configuration call in progress, as a reader of the registry of t
\* sees it.
During(t) ==
  IF procs.c.todo = <<>> THEN NoDuring
  ELSE [op |-> procs.c.call.op, t |-> procs.c.call.t, F |-> procs.c.call.F,
        was |-> procs.c.was[t], reached |-> procs.c.reached]

\* The theme both goroutines work on, its possible parent, the name written
\* and the registries passed.
Shared == "t1"
SharedParent == "t2"
ConcurrentNames == {"a"}
ConcurrentMaps == {Empty, [n \in RegistryNames |-> 1]}

InitConcurrent ==
  /\ storage = LayeredStorage
  /\ debug = [t \in Themes |-> FALSE]
  /\ funcMap = [t \in Themes |-> Empty]
  /\ parent = [t \in Themes |-> Nil]
  /\ cache = [t \in Themes |-> Empty]
  /\ status = "run"
  /\ ret = Call("NewTheme", "")
  /\ seen = [t \in Themes |-> {}]
  /\ chain = <<>>
  /\ templates = Empty
  /\ procs = [w |-> IdleWriter, c |-> IdleConfig]

\* Write, line 96: debug := t.debug.Load()
WriteLoadDebug(w, t, name) ==
  /\ procs[w].pc = "idle"
  /\ procs' = [procs EXCEPT ![w] = [IdleWriter EXCEPT !.pc = "check", !.t = t,
                                     !.name = name, !.dbg = debug[t]]]
  /\ UNCHANGED <<storage, debug, funcMap, parent, cache, status, ret, seen, chain,
                 templates>>

\* Write, lines 98-102: the cache lookup; a hit goes on to Execute.
WriteCheck(w) ==
  /\ procs[w].pc = "check"
  /\ procs' = IF ~procs[w].dbg /\ procs[w].name \in DOMAIN cache[procs[w].t]
              THEN [procs EXCEPT ![w].pc = "hit",
                                 ![w].unit = cache[procs[w].t][procs[w].name]]
              ELSE [procs EXCEPT ![w].pc = "build"]
  /\ UNCHANGED <<storage, debug, funcMap, parent, cache, status, ret, seen, chain,
                 templates>>

\* Write, lines 104-107: buildTemplate, which reads the registry with
\* t.FuncMap(); an error is returned at once.
WriteBuild(w) ==
  /\ procs[w].pc = "build"
  /\ \E b \in {buildTemplate(procs[w].t, procs[w].name)} :
       IF b.err # NoErr \/ b.stop # ""
       THEN /\ procs' = [procs EXCEPT ![w] = IdleWriter]
            /\ status' = IF b.stop # "" THEN b.stop ELSE status
            /\ ret' = [Call("Write", procs[w].t) EXCEPT
                         !.name = procs[w].name, !.d = procs[w].dbg, !.err = b.err,
                         !.finds = b.finds]
       ELSE /\ procs' = [procs EXCEPT ![w].pc = "store", ![w].unit = b.unit,
                                      ![w].finds = b.finds]
            /\ UNCHANGED <<status, ret>>
  /\ UNCHANGED <<storage, debug, funcMap, parent, cache, seen, chain, templates>>

\* A Write that goes on to Execute without storing the unit it built.
WriteStoreSkipped(w) ==
  /\ procs[w].pc = "store"
  /\ procs' = [procs EXCEPT ![w].pc = "execute"]
  /\ UNCHANGED <<storage, debug, funcMap, parent, cache, status, ret, seen, chain,
                 templates>>

\* Write, lines 109-111: the unit is stored when the flag read was off.
WriteStore(w) ==
  /\ procs[w].pc = "store"
  /\ cache' = IF procs[w].dbg THEN cache
              ELSE [cache EXCEPT ![procs[w].t] =
                      UpdatedBy(@, [k \in {procs[w].name} |-> procs[w].unit])]
  /\ procs' = [procs EXCEPT ![w].pc = "execute"]
  /\ UNCHANGED <<storage, debug, funcMap, parent, status, ret, seen, chain,
                 templates>>

\* Write, lines 100 and 113: Execute, and the return.
WriteExecute(w) ==
  /\ procs[w].pc \in {"hit", "execute"}
  /\ \E x \in {Execute(procs[w].unit)} :
       ret' = [Call("Write", procs[w].t) EXCEPT
                 !.name = procs[w].name, !.d = procs[w].dbg, !.err = x.err,
                 !.out = x.out, !.finds = procs[w].finds,
                 !.hit = (procs[w].pc = "hit")]
  /\ procs' = [procs EXCEPT ![w] = IdleWriter]
  /\ UNCHANGED <<storage, debug, funcMap, parent, cache, status, seen, chain,
                 templates>>

\* Theme.FuncMap() called by the first goroutine; Write calls it too, in
\* buildTemplate (line 131).
FuncMapSnapshot(t) ==
  /\ procs.w.pc = "idle"
  /\ ret' = [Call("FuncMap", t) EXCEPT !.F = funcMap[t], !.during = During(t)]
  /\ UNCHANGED <<storage, debug, funcMap, parent, cache, status, seen, chain,
                 templates, procs>>

\* The second goroutine enters a configuration call.
ConfigBegin(i) ==
  /\ status = "run"
  /\ procs.c.todo = <<>>
  /\ procs' = [procs EXCEPT !.c =
                 [call |-> [Call(i.op, i.t) EXCEPT !.d = i.d, !.F = i.F,
                                                   !.was = funcMap[i.t]],
                  todo |-> <<i>>, was |-> funcMap,
                  reached |-> Reached(parent, i.t)]]
  /\ UNCHANGED <<storage, debug, funcMap, parent, cache, status, ret, seen, chain,
                 templates>>

\* The themes as the steps of a configuration call see them.
SharedState ==
  [debug |-> debug, funcMap |-> funcMap, cache |-> cache, parent |-> parent]

\* The end of a step that left r: the call returns when nothing is pending.
configStepped(r, rest) ==
  /\ debug' = r.S.debug
  /\ funcMap' = r.S.funcMap
  /\ cache' = r.S.cache
  /\ parent' = r.S.parent
  /\ procs' = IF r.push \o rest = <<>> THEN [procs EXCEPT !.c = IdleConfig]
              ELSE [procs EXCEPT !.c.todo = r.push \o rest]
  /\ ret' = IF r.push \o rest = <<>> THEN procs.c.call ELSE ret

\* The second goroutine takes the next step of its configuration call.
ConfigStep ==
  /\ procs.c.todo # <<>>
  /\ \E k \in rangeKeys(Head(procs.c.todo)) :
       configStepped(configStep(SharedState, Head(procs.c.todo), k),
                     Tail(procs.c.todo))
  /\ UNCHANGED <<storage, status, seen, chain, templates>>

\* The configuration calls made on the shared theme.
ConfigCalls ==
  {[Instr("SetDebug", Shared) EXCEPT !.d = d] : d \in BOOLEAN}
  \cup {[Instr(op, Shared) EXCEPT !.F = F] :
          op \in {"SetFuncMap", "AddFuncMap"}, F \in ConcurrentMaps}
  \cup {[Instr("SetParent", Shared) EXCEPT !.p = p] : p \in {Nil, SharedParent}}
  \cup {Instr("Clear", Shared)}

NextConcurrent ==
  \/ \E name \in ConcurrentNames : WriteLoadDebug("w", Shared, name)
  \/ WriteCheck("w")
  \/ WriteBuild("w")
  \/ WriteStore("w")
  \/ WriteExecute("w")
  \/ \E i \in ConfigCalls : ConfigBegin(i)
  \/ ConfigStep

SpecConcurrent == InitConcurrent /\ [][NextConcurrent]_vars

\* ------------------------------------------------ writers specification
\* Two goroutines call Write on the shared theme, which has debug off and
\* the chain t1 -> t2 -> t3 above it; nobody configures a theme.
Writers == {"w", "v"}

InitWriters ==
  /\ storage = LayeredStorage
  /\ debug = [t \in Themes |-> FALSE]
  /\ funcMap = [t \in Themes |-> Empty]
  /\ parent = [t \in Themes |->
                 IF t = Shared THEN SharedParent
                 ELSE IF t = SharedParent THEN "t3" ELSE Nil]
  /\ cache = [t \in Themes |-> Empty]
  /\ status = "run"
  /\ ret = Call("NewTheme", "")
  /\ seen = [t \in Themes |-> {}]
  /\ chain = <<>>
  /\ templates = Empty
  /\ procs = [w |-> IdleWriter, v |-> IdleWriter, c |-> IdleConfig]

NextWriters ==
  \/ \E w \in Writers, name \in Names : WriteLoadDebug(w, Shared, name)
  \/ \E w \in Writers : WriteCheck(w)
  \/ \E w \in Writers : WriteBuild(w)
  \/ \E w \in Writers : WriteStore(w)
  \/ \E w \in Writers : WriteExecute(w)

SpecWriters == InitWriters /\ [][NextWriters]_vars

\* ---------------------------------------------- snapshot specification
\* One goroutine takes FuncMap() snapshots of the shared theme and of its
\* parent while the other replaces the shared theme's registry and sets or
\* removes its parent.
SnapshotMaps ==
  {Empty, [n \in RegistryNames |-> 1], [n \in RegistryNames |-> 2]}
SnapshotCalls ==
  {[Instr("SetFuncMap", Shared) EXCEPT !.F = F] : F \in SnapshotMaps}
  \cup {[Instr("SetParent", Shared) EXCEPT !.p = p] : p \in {Nil, SharedParent}}

NextSnapshot ==
  \/ \E t \in {Shared, SharedParent} : FuncMapSnapshot(t)
  \/ \E i \in SnapshotCalls : ConfigBegin(i)
  \/ ConfigStep

SpecSnapshot == InitConcurrent /\ [][NextSnapshot]_vars

\* --------------------------------------------------- Seq specification
\* The integers passed to Seq: the ends of int, the values around the two
\* limits and around zero; and the longest argument list.
SeqValues ==
  {MinInt, -LastLimit - 1, -LastLimit, -SizeLimit - 1, -2, -1, 0, 1, 2, 3,
   SizeLimit, SizeLimit + 1, MaxInt}
MaxArgs == 4
SeqArgs == UNION {[1..k -> SeqValues] : k \in 0..MaxArgs}

\* An argument list is about to be passed to Seq.
InitSeq ==
  /\ storage = LayeredStorage
  /\ debug = [t \in Themes |-> FALSE]
  /\ funcMap = [t \in Themes |-> Empty]
  /\ parent = [t \in Themes |-> Nil]
  /\ cache = [t \in Themes |-> Empty]
  /\ status = "run"
  /\ seen = [t \in Themes |-> {}]
  /\ chain = <<>>
  /\ templates = Empty
  /\ procs = Empty
  /\ \E args \in SeqArgs : ret = [op |-> "args", args |-> args, out |-> SeqNil]

\* The call Seq(args...), up to the loop
SeqCall ==
  /\ ret.op = "args"
  /\ ret' = [ret EXCEPT !.op = "Seq", !.out = internalSeq(ret.args)]
  /\ UNCHANGED <<storage, debug, funcMap, parent, cache, status, seen, chain,
                 templates, procs>>

\* One iteration of the loop of Seq
SeqIterate ==
  /\ ret.op = "Seq"
  /\ ret.out.kind = "loop"
  /\ ret' = [ret EXCEPT !.out = seqLoop(ret.out)]
  /\ UNCHANGED <<storage, debug, funcMap, parent, cache, status, seen, chain,
                 templates, procs>>

NextSeq == SeqCall \/ SeqIterate

SpecSeq == InitSeq /\ [][NextSeq]_vars

TypeOK ==
  /\ debug \in [Themes -> BOOLEAN]
  /\ parent \in [Themes -> Themes \cup {Nil}]
  /\ status \in {"run", "overflow", "hang", "panic"}
  /\ \A t \in Themes :
       /\ DOMAIN funcMap[t] \subseteq FuncNames \cup RegistryNames
       /\ \A k \in DOMAIN funcMap[t] : funcMap[t][k] \in FuncVals
       /\ DOMAIN cache[t] \subseteq Names

\* ================================================================ claims
ConfigOps == {"SetDebug", "SetFuncMap", "AddFuncMap", "SetParent"}

\* C1: on a theme with debug off, once Write(name) has succeeded and no
\* configuration call has reached the theme since, a Write(name) uses the
\* cached unit: it returns what executing that unit returns, calls Find on
\* no source and leaves the cache as it is.
C1_CachedWriteAsksNoSource ==
  [][(ret'.op = "Write" /\ ret'.name \in seen[ret'.t]) =>
       /\ ret'.hit
       /\ ret'.finds = <<>>
       /\ ret'.name \in DOMAIN cache[ret'.t]
       /\ ret'.err = Execute(cache[ret'.t][ret'.name]).err
       /\ ret'.out = Execute(cache[ret'.t][ret'.name]).out
       /\ cache' = cache]_vars

\* A second Write of a name on a theme with a parent, served from the cache.
C1_Witness ==
  /\ ret.op = "Write" /\ ret.hit /\ ret.err = NoErr
  /\ ret.name \in seen[ret.t]
  /\ parent[ret.t] # Nil
  /\ Len(ret.out) > 1

\* C2: while the debug flag of a theme is on, every Write(name) asks the
\* theme's source for name first and stores nothing in the cache.
C2_DebugWriteAsksSource ==
  [][(ret'.op = "Write" /\ debug[ret'.t]) =>
       /\ ~ret'.hit
       /\ ret'.finds # <<>>
       /\ ret'.finds[1] = <<ret'.t, ret'.name>>
       /\ cache' = cache]_vars

\* A successful Write in debug mode: the source was asked, the cache is empty.
C2_Witness ==
  /\ ret.op = "Write" /\ ret.d /\ ret.err = NoErr
  /\ ret.finds # <<>>
  /\ cache[ret.t] = Empty

\* C3 as stated: every SetDebug, SetFuncMap, AddFuncMap or SetParent that
\* returns leaves the cache of its theme empty, also a call that sets the
\* value the theme already holds.
C3_EveryConfigCallClearsCache ==
  (status = "run" /\ ret.op \in ConfigOps) => cache[ret.t] = Empty

\* C3 amended: every SetFuncMap, AddFuncMap or SetParent that returns, and
\* every SetDebug that changes the flag, leaves the cache of its theme
\* empty; a SetDebug with the value the theme already holds changes nothing.
C3_ChangingConfigCallClearsCache ==
  [][(status' = "run" /\ ret'.op \in ConfigOps) =>
       IF ret'.op = "SetDebug" /\ ret'.d = debug[ret'.t]
       THEN <<debug, funcMap, cache, parent>>' = <<debug, funcMap, cache, parent>>
       ELSE cache'[ret'.t] = Empty]_vars

\* A changed debug flag on a theme with a parent, both caches empty.
C3_Witness ==
  /\ ret.op = "SetDebug" /\ ret.changed
  /\ parent[ret.t] # Nil
  /\ cache[ret.t] = Empty

\* C4 as stated: after child.SetDebug(d) on a theme with a parent, the
\* parent's debug flag is d.
C4_ParentDebugAfterEverySetDebug ==
  (ret.op = "SetDebug" /\ parent[ret.t] # Nil) => debug[parent[ret.t]] = ret.d

\* C4 amended: after a child.SetDebug(d) that changes the child's flag, the
\* parent's debug flag is d; a SetDebug(d) on a child that already holds d
\* leaves the parent's flag as it was.
C4_ParentDebugAfterChangingSetDebug ==
  [][(ret'.op = "SetDebug" /\ parent[ret'.t] # Nil) =>
       IF ret'.d = debug[ret'.t]
       THEN debug'[parent[ret'.t]] = debug[parent[ret'.t]]
       ELSE debug'[parent[ret'.t]] = ret'.d]_vars

\* The child's flag changed and the parent and the grandparent follow it.
C4_Witness ==
  /\ ret.op = "SetDebug" /\ ret.changed
  /\ parent[ret.t] # Nil /\ parent[parent[ret.t]] # Nil
  /\ debug[parent[ret.t]] = ret.d

\* C5: after child.SetFuncMap(F) or child.AddFuncMap(F) on a theme with a
\* parent, the parent's registry equals the child's: same names, same
\* values, nothing of what the parent held before besides.
C5_ParentRegistryEqualsChilds ==
  (ret.op \in {"SetFuncMap", "AddFuncMap"} /\ parent[ret.t] # Nil) =>
    funcMap[parent[ret.t]] = funcMap[ret.t]

\* The child emptied its registry and the parent's is empty with it, or the
\* child added to it and the parent holds the same.
C5_Witness ==
  /\ ret.op = "AddFuncMap"
  /\ parent[ret.t] # Nil
  /\ funcMap[ret.t] # Empty
  /\ funcMap[parent[ret.t]] = funcMap[ret.t]

\* The themes from t up the parent chain.
Chain(t) == {t} \cup Ancestors(parent, t)

\* The names a resolution started on theme t for name n looks up in the
\* own source of t.
OwnLookups(t, n) ==
  LET f == write(t, n).finds
  IN {f[i][2] : i \in {k \in DOMAIN f : f[k][1] = t}}

\* C6 as stated: a child whose own source has no record X and whose parent's
\* source has X writes X successfully, with the output that parent.Write(X)
\* writes, whatever the two sources hold besides.
C6_ChildWritesWhatParentWrites ==
  ( /\ ret.op = "Write"
    /\ parent[ret.t] # Nil
    /\ storage[ret.t][ret.name].kind = "nf"
    /\ storage[parent[ret.t]][ret.name].kind = "rec"
    /\ \A n \in Names : storage[ret.t][n].kind # "fail"
    /\ write(parent[ret.t], ret.name).stop = ""
    /\ write(parent[ret.t], ret.name).err = NoErr ) =>
    /\ status = "run"
    /\ ret.err = NoErr
    /\ ret.out = write(parent[ret.t], ret.name).out

\* C6 amended: a child whose own source reports NotFound for X and for every
\* dependency name looked up while X is resolved, and whose parent writes X
\* successfully, writes X successfully with the output of parent.Write(X),
\* the two themes holding the same function registry and neither Write
\* being served from a cache.
C6_ChildWithoutOwnRecordsWritesWhatParentWrites ==
  \A c \in Themes, X \in Names :
    ( /\ parent[c] # Nil
      /\ storage[parent[c]][X].kind = "rec"
      /\ funcMap[c] = funcMap[parent[c]]
      /\ ~write(c, X).hit /\ ~write(parent[c], X).hit
      /\ write(parent[c], X).stop = "" /\ write(parent[c], X).err = NoErr
      /\ \A n \in OwnLookups(c, X) : storage[c][n].kind = "nf" ) =>
      LET wc == write(c, X)
      IN wc.stop = "" /\ wc.err = NoErr /\ wc.out = write(parent[c], X).out

\* The child wrote a name that only its parent has, whose body pulls in a
\* second record, and wrote what the parent writes.
C6_Witness ==
  /\ ret.op = "Write" /\ ret.err = NoErr /\ status = "run"
  /\ parent[ret.t] # Nil
  /\ storage[ret.t][ret.name].kind = "nf"
  /\ storage[parent[ret.t]][ret.name].kind = "rec"
  /\ \A n \in OwnLookups(ret.t, ret.name) : storage[ret.t][n].kind = "nf"
  /\ Len(ret.out) > 1
  /\ ret.out = write(parent[ret.t], ret.name).out

\* C7 as stated: when a source on the fallback chain answers a lookup of
\* the resolution with a failure that is not NotFound-kind, Write returns an
\* error that is not NotFound-kind.
C7_SourceFailureIsFatal ==
  ( /\ ret.op = "Write"
    /\ \E i \in DOMAIN ret.finds :
         storage[ret.finds[i][1]][ret.finds[i][2]].kind = "fail" ) =>
    (status = "run" /\ ret.err # NoErr /\ ~IsNotFound(ret.err))

\* C8: a source of an ancestor is asked for a name only right after the
\* source of the theme below it reported NotFound for that name; when the
\* own source of the theme fails otherwise, no further source is asked and
\* Write returns that failure.
C8_ParentAskedOnlyAfterNotFound ==
  ret.op = "Write" =>
    \A i \in DOMAIN ret.finds :
      LET u == ret.finds[i][1]
          n == ret.finds[i][2]
      IN /\ u # ret.t =>
              /\ i > 1
              /\ ret.finds[i - 1][2] = n
              /\ parent[ret.finds[i - 1][1]] = u
              /\ storage[ret.finds[i - 1][1]][n].kind = "nf"
         /\ (u = ret.t /\ storage[u][n].kind = "fail") =>
              /\ i = Len(ret.finds)
              /\ ret.err # NoErr /\ ~IsNotFound(ret.err)
              /\ ret.err.theme = ret.t /\ ret.err.name = n

\* The own source failed for the written name, the parent has it and was
\* not asked.
C8_Witness ==
  /\ ret.op = "Write"
  /\ storage[ret.t][ret.name].kind = "fail"
  /\ parent[ret.t] # Nil
  /\ storage[parent[ret.t]][ret.name].kind = "rec"
  /\ ret.finds = << <<ret.t, ret.name>> >>
  /\ ret.err # NoErr

\* The error find returns names theme t and name n, is NotFound-kind, and
\* wraps one cause for every source asked, in the order asked.
NotFoundFrom(r, t, n) ==
  /\ r.err # NoErr /\ IsNotFound(r.err)
  /\ r.err.theme = t /\ r.err.name = n
  /\ Len(r.err.causes) = Len(r.finds)
  /\ r.finds[1] = <<t, n>>
  /\ \A i \in DOMAIN r.finds :
       /\ r.err.causes[i][1] = r.finds[i][1]
       /\ r.err.causes[i][2] =
            (IF storage[r.finds[i][1]][n].kind = "nf" THEN NotFound ELSE Failure)
  /\ \A u \in Chain(t) :
       (\A v \in Chain(t) : u \in Chain(v) => storage[v][n].kind = "nf" \/ v = u)
         => \E i \in DOMAIN r.finds : r.finds[i][1] = u

\* C9 as stated: when neither the own source nor a source on the parent
\* chain supplies the name, the lookup fails with a NotFound-kind error that
\* names the theme it started on and the name and wraps the causes.
C9_ExhaustedLookupIsNotFound ==
  ( /\ ret.op = "Write"
    /\ \A u \in Chain(ret.t) : storage[u][ret.name].kind # "rec" ) =>
    NotFoundFrom([err |-> ret.err, finds |-> ret.finds], ret.t, ret.name)

\* C9 amended: when the own source reports NotFound for the name and no
\* source on the parent chain supplies it, the lookup fails with a
\* NotFound-kind error that names the theme it started on and the name and
\* wraps the causes of the local and the parent lookups; a Write of such a
\* name returns that error.
C9_NotFoundLookupIsNotFound ==
  /\ \A t \in Themes, n \in Names :
       ( /\ storage[t][n].kind = "nf"
         /\ \A u \in Chain(t) : storage[u][n].kind # "rec" ) =>
         NotFoundFrom(find(t, n), t, n)
  /\ ( /\ ret.op = "Write"
       /\ storage[ret.t][ret.name].kind = "nf"
       /\ \A u \in Chain(ret.t) : storage[u][ret.name].kind # "rec" ) =>
       /\ NotFoundFrom([err |-> ret.err, finds |-> ret.finds], ret.t, ret.name)
       /\ ret.out = <<>>

\* A Write of a name that the theme and its two ancestors all report
\* NotFound for.
C9_Witness ==
  /\ ret.op = "Write" /\ ret.t = "t1"
  /\ \A u \in Chain(ret.t) : storage[u][ret.name].kind = "nf"
  /\ Len(ret.finds) = 3
  /\ IsNotFound(ret.err) /\ ret.err.theme = "t1"

\* C10 as stated: a resolution that succeeds yields a dependency set in
\* which every record's declared path is in the set.
C10_DeclaredPathsAreInTheSet ==
  ret.op = "Write" =>
    LET b == buildTemplate(ret.t, ret.name)
    IN b.err = NoErr =>
         \A k \in DOMAIN b.data : b.data[k].path \in DOMAIN b.data

\* No source on the fallback chain of t has a record for X.
Missing(t, X) == \A u \in Chain(t) : storage[u][X].kind = "nf"

\* The references refs without the occurrences of X.
Without(refs, X) ==
  LET keep(r) == r # X IN SelectSeq(refs, keep)

\* The resolver state in which findByName has just stored item under name n.
Stored(n, item) ==
  [data |-> [k \in {n} |-> item], finds |-> <<>>, err |-> NoErr]

\* C11: when a record resolved on theme t references a name X that every
\* source on the fallback chain of t reports NotFound for, the resolution
\* of the record's dependencies ends as it ends for the same record without
\* the references to X: the same error or none, and the same dependency
\* set, which has no X; the references after X are resolved.
C11_MissingReferenceIsSkipped ==
  \A t \in Callers, u \in Themes, n \in Names, X \in Names :
    ( /\ u \in Chain(t)
      /\ storage[u][n].kind = "rec"
      /\ \E i \in DOMAIN storage[u][n].refs : storage[u][n].refs[i] = X
      /\ Missing(t, X) ) =>
      LET item == newTemplate(u, n, storage[u][n])
          r == findByTemplate(t, Stored(n, item), item)
          q == findByTemplate(t, Stored(n, item),
                              [item EXCEPT !.refs = Without(@, X)])
      IN /\ r.err = q.err
         /\ r.data = q.data
         /\ X \notin DOMAIN r.data

\* A Write of a record with two references: the first names a record that
\* no source on the chain has, the second was looked up after it and is in
\* the dependency set.
C11_Witness ==
  /\ ret.op = "Write" /\ status = "run"
  /\ storage[ret.t][ret.name].kind = "rec"
  /\ Len(storage[ret.t][ret.name].refs) = 2
  /\ Missing(ret.t, storage[ret.t][ret.name].refs[1])
  /\ LET b == buildTemplate(ret.t, ret.name)
         Y == storage[ret.t][ret.name].refs[2]
     IN /\ b.err = NoErr
        /\ Y \in DOMAIN b.data
        /\ storage[ret.t][ret.name].refs[1] \notin DOMAIN b.data
        /\ \E i \in DOMAIN ret.finds : ret.finds[i] = <<ret.t, Y>>

\* How many times the lookups f ask the own source of theme t for name n,
\* which is how many times t.find(n) was called.
OwnCount(f, t, n) == Cardinality({i \in DOMAIN f : f[i] = <<t, n>>})

\* The dependency names the records data[k], k in S, name: one for a
\* declared path and one for every reference marker.
RECURSIVE Occurrences(_, _)
Occurrences(data, S) ==
  IF S = {} THEN 0
  ELSE LET k == CHOOSE x \in S : TRUE
       IN Len(data[k].refs) + (IF data[k].path # k THEN 1 ELSE 0)
            + Occurrences(data, S \ {k})

\* The references of the record under k in data, as a set.
RefSet(data, k) == {data[k].refs[i] : i \in DOMAIN data[k].refs}

\* C12 as stated: in one resolution pass, reference cycles included, the
\* theme lookup is made at most once for every name.
C12_EveryNameLookedUpAtMostOnce ==
  ret.op = "Write" => \A n \in Names : OwnCount(ret.finds, ret.t, n) <= 1

\* C12 amended: the resolver returns for every content, reference cycles
\* and self-references included, after at most one theme lookup for the
\* root and one for every declared path and reference marker of the records
\* found; every name of the dependency set was looked up exactly once and
\* is held once, under its own name. (A name that is not found is looked up
\* again at every further reference to it.)
C12_EveryFoundNameLookedUpOnce ==
  ret.op = "Write" =>
    LET b == buildTemplate(ret.t, ret.name)
    IN /\ b.finds = ret.finds
       /\ \A k \in DOMAIN b.data :
            b.data[k].name = k /\ OwnCount(ret.finds, ret.t, k) = 1
       /\ Cardinality({i \in DOMAIN ret.finds : ret.finds[i][1] = ret.t})
            <= 1 + Occurrences(b.data, DOMAIN b.data)

\* A resolution over a reference cycle of two records, one of which also
\* references itself or a third name: it returned with both in the set.
C12_Witness ==
  /\ ret.op = "Write" /\ status = "run"
  /\ LET b == buildTemplate(ret.t, ret.name)
     IN /\ b.err = NoErr
        /\ \E k1, k2 \in DOMAIN b.data :
             /\ k1 # k2
             /\ k2 \in RefSet(b.data, k1)
             /\ k1 \in RefSet(b.data, k2)
             /\ OwnCount(ret.finds, ret.t, k1) = 1
             /\ OwnCount(ret.finds, ret.t, k2) = 1

\* The names reached from name n by following declared paths in data, n
\* included.
RECURSIVE PathsFrom(_, _)
PathsFrom(data, acc) ==
  LET more == {data[k].path : k \in acc \cap DOMAIN data}
  IN IF more \subseteq acc THEN acc ELSE PathsFrom(data, acc \cup more)

\* The Write that has just returned assembled a unit for a root record that
\* declares a path.
InheritingWrite ==
  /\ ret.op = "Write" /\ status = "run"
  /\ buildTemplate(ret.t, ret.name).err = NoErr
  /\ buildTemplate(ret.t, ret.name).data[ret.name].path # ret.name

C14_ClearChangesOnlyOwnCache ==
  [][ret'.op = "Clear" =>
       /\ cache'[ret'.t] = Empty
       /\ debug' = debug /\ funcMap' = funcMap /\ parent' = parent
       /\ \A u \in Themes \ {ret'.t} : cache'[u] = cache[u]]_vars

\* C15: a SetDebug, SetFuncMap, AddFuncMap, SetParent or Clear that is
\* called on a theme and returns leaves every theme that has it as parent
\* as it was: debug flag, registry, parent link and cache of the child are
\* not modified.
C15_ParentCallLeavesChildren ==
  [][(ret'.op \in ConfigOps \cup {"Clear"} /\ status' = "run") =>
       \A c \in Themes \ {ret'.t} :
         parent[c] = ret'.t =>
           /\ debug'[c] = debug[c]
           /\ funcMap'[c] = funcMap[c]
           /\ parent'[c] = parent[c]
           /\ cache'[c] = cache[c]]_vars

\* A parent whose registry was changed by a call of its own, while its
\* child keeps a different registry and a filled cache.
C15_Witness ==
  /\ ret.op \in {"SetFuncMap", "AddFuncMap"} /\ status = "run"
  /\ \E c \in Themes \ {ret.t} :
       /\ parent[c] = ret.t
       /\ funcMap[c] # funcMap[ret.t]
       /\ cache[c] # Empty
       /\ cache[ret.t] = Empty

\* C16: when the resolution or the assembly of a Write fails (a lookup
\* fails, a declared path is missing, a record does not parse), the Write
\* returns that error, writes nothing and leaves the cache as it was.
C16_FailedBuildWritesAndStoresNothing ==
  [][(ret'.op = "Write" /\ ~ret'.hit
        /\ buildTemplate(ret'.t, ret'.name).err # NoErr) =>
       /\ ret'.err = buildTemplate(ret'.t, ret'.name).err
       /\ ret'.out = <<>>
       /\ cache' = cache
       /\ status' = "run"]_vars

\* With debug off and another unit in the cache: a Write that failed to
\* parse a record supplied by the own source for a path declared by a
\* record of the parent.
C16_Witness ==
  /\ ret.op = "Write" /\ ~ret.d /\ ~ret.hit
  /\ "Parse" \in ret.err.kinds
  /\ ret.out = <<>>
  /\ parent[ret.t] # Nil
  /\ cache[ret.t] # Empty
  /\ ret.name \notin DOMAIN cache[ret.t]

\* Content s starts, after leading space, with a comment that opens at
\* index i and closes at index j with no line break and no other closing
\* delimiter between the two.
LeadingMarker(s, i, j) ==
  /\ i < j
  /\ \A k \in 1..(i - 1) : IsSpace(s[k])
  /\ s[i] = "<!--" /\ s[j] = "-->"
  /\ \A k \in (i + 1)..(j - 1) : s[k] \notin {"\n", "-->"}

\* p is P without the space around it.
Trimmed(p, P) ==
  \E a \in 1..(Len(P) + 1), b \in 0..Len(P) :
    /\ p = SubSeq(P, a, b)
    /\ \A k \in DOMAIN P : (k < a \/ k > b) => IsSpace(P[k])
    /\ p # <<>> => (~IsSpace(p[1]) /\ ~IsSpace(p[Len(p)]))

\* C17: the record built from a content that, after optional leading
\* space, starts with a single-line marker <!-- P --> has the path P with
\* the space around it trimmed and the content that follows this marker,
\* later markers kept; for every other content (no marker, a marker not at
\* the start, a marker that spans several lines) it has path = name and the
\* content unchanged.
C17_LeadingMarkerDeclaresPath ==
  ret.op = "newTemplate" =>
    LET s == ret.content
    IN /\ ret.tpl.name = ContentName /\ ret.tpl.theme = "t1"
       /\ \A i, j \in DOMAIN s :
            LeadingMarker(s, i, j) =>
              /\ Trimmed(ret.tpl.path, SubSeq(s, i + 1, j - 1))
              /\ ret.tpl.content = SubSeq(s, j + 1, Len(s))
       /\ (~\E i, j \in DOMAIN s : LeadingMarker(s, i, j)) =>
            /\ ret.tpl.path = ContentName
            /\ ret.tpl.content = s

\* A content with a line break before its marker, space around the path
\* in the marker and a second marker after it, which stays in the content.
C17_Witness ==
  /\ ret.op = "newTemplate"
  /\ Len(ret.content) = 7
  /\ ret.content[1] = "\n"
  /\ LeadingMarker(ret.content, 2, 5)
  /\ ret.content[3] = " "
  /\ ret.tpl.path = <<"x">>
  /\ ret.tpl.content = <<"<!--", "-->">>

\* C18: after AddFuncMap(F) the registry of the theme is the registry it
\* held before overridden by F: every name of F has the value F gives it,
\* every other name has the value it had, and the names are those held
\* before and those of F.
C18_AddFuncMapOverrides ==
  [][(ret'.op = "AddFuncMap" /\ status' = "run") =>
       LET t == ret'.t
           F == ret'.F
       IN /\ DOMAIN funcMap'[t] = DOMAIN funcMap[t] \cup DOMAIN F
          /\ \A k \in DOMAIN F : funcMap'[t][k] = F[k]
          /\ \A k \in DOMAIN funcMap[t] \ DOMAIN F : funcMap'[t][k] = funcMap[t][k]]_vars

\* An AddFuncMap that gave one name a new value and left the other name of
\* the registry, which it did not pass, in place.
C18_Witness ==
  /\ ret.op = "AddFuncMap" /\ status = "run"
  /\ DOMAIN ret.F = {"f"} /\ DOMAIN ret.was = {"f", "g"}
  /\ ret.was["f"] # ret.F["f"]
  /\ funcMap[ret.t]["f"] = ret.F["f"]
  /\ funcMap[ret.t]["g"] = ret.was["g"]

\* C19: after SetFuncMap(F) the registry of the theme, which FuncMap()
\* copies, is F: the names held before and not in F are gone.
C19_SetFuncMapReplaces ==
  [][(ret'.op = "SetFuncMap" /\ status' = "run") =>
       funcMap'[ret'.t] = ret'.F]_vars

\* A SetFuncMap on a theme that held two names, with a registry of one
\* other value for one of them: the second name is gone.
C19_Witness ==
  /\ ret.op = "SetFuncMap" /\ status = "run"
  /\ DOMAIN ret.was = {"f", "g"} /\ DOMAIN ret.F = {"g"}
  /\ ret.was["g"] # ret.F["g"]
  /\ funcMap[ret.t] = ret.F

\* C20: StoreChain.Find calls Find on its stores in the order in which they
\* were given and added, each at most once; when it returns a record, the
\* record is that of the first store of the chain that succeeds, every
\* store before it was asked and no store after it; and it returns that
\* record whenever the stores before the first that succeeds report
\* NotFound.
C20_FirstStoreThatSucceeds ==
  ret.op = "Find" =>
    LET r == ret.found
        k == Len(r.asked)
    IN /\ k <= Len(chain)
       /\ r.asked = SubSeq(chain, 1, k)
       /\ r.tpl # NoRecord =>
            /\ r.err = NoErr
            /\ chain[k].kind = "rec"
            /\ r.tpl = storeRecord(chain[k])
            /\ \A i \in 1..(k - 1) : chain[i].kind # "rec"
       /\ \A i \in DOMAIN chain :
            (chain[i].kind = "rec" /\ \A j \in 1..(i - 1) : chain[j].kind = "nf")
              => (r.tpl = storeRecord(chain[i]) /\ k = i)

\* A Find on a chain of three stores: the first reports NotFound, the
\* second and the third have the template; the second's record is returned
\* and the third was not asked.
C20_Witness ==
  /\ ret.op = "Find"
  /\ Len(chain) = 3
  /\ chain[1].kind = "nf" /\ chain[2].kind = "rec" /\ chain[3].kind = "rec"
  /\ chain[2].id # chain[3].id
  /\ ret.found.tpl = storeRecord(chain[2])
  /\ Len(ret.found.asked) = 2

\* C21: when the first store of the chain that does not report NotFound
\* fails with an error of another kind, Find returns no record and that
\* store's error as the store returned it, and asks no store after it,
\* whatever the later stores hold.
C21_StoreFailureEndsFind ==
  ret.op = "Find" =>
    \A i \in DOMAIN chain :
      (chain[i].kind = "fail" /\ \A j \in 1..(i - 1) : chain[j].kind = "nf") =>
        /\ ret.found.tpl = NoRecord
        /\ ret.found.err = storeError(chain[i])
        /\ ~IsNotFound(ret.found.err)
        /\ ret.found.asked = SubSeq(chain, 1, i)

\* A Find on a chain of three: the first store reports NotFound, the second
\* fails, the third has the template and was not asked.
C21_Witness ==
  /\ ret.op = "Find"
  /\ Len(chain) = 3
  /\ chain[1].kind = "nf" /\ chain[2].kind = "fail" /\ chain[3].kind = "rec"
  /\ ret.found.err = storeError(chain[2])
  /\ Len(ret.found.asked) = 2

\* C22: when every store of the chain reports NotFound, and when the chain
\* is empty, Find returns no record and a NotFound-kind error that names the
\* theme and the name asked for, after it has asked every store once, in
\* order.
C22_AllNotFoundIsNotFound ==
  (ret.op = "Find" /\ \A i \in DOMAIN chain : chain[i].kind = "nf") =>
    /\ ret.found.tpl = NoRecord
    /\ IsNotFound(ret.found.err)
    /\ ret.found.err.theme = ChainTheme /\ ret.found.err.name = ChainName
    /\ ret.found.asked = chain

\* A Find on a chain of three different stores that all report NotFound.
C22_Witness ==
  /\ ret.op = "Find"
  /\ Len(chain) = 3
  /\ \A i \in DOMAIN chain : chain[i].kind = "nf"
  /\ chain[1].id # chain[2].id
  /\ IsNotFound(ret.found.err)
  /\ Len(ret.found.asked) = 3

\* C23: records added to StoreMemory under distinct (theme, name) pairs are
\* independent: a Find(theme, name) that succeeds returns a record whose
\* theme and name are the ones asked for (so that exact pair was added),
\* also when another pair with the same concatenation theme+name was added.
C23_FindReturnsThePairAskedFor ==
  (ret.op = "Find" /\ ret.found.err = NoErr) =>
    /\ ret.found.tpl.theme = ret.theme
    /\ ret.found.tpl.name = ret.name

\* The first value, the increment and the last value Seq works with for an
\* argument list of one to three integers.
SeqFirst(args) ==
  IF Len(args) = 1 THEN (IF args[1] > 0 THEN 1 ELSE -1) ELSE args[1]
SeqInc(args) ==
  IF Len(args) = 1 THEN (IF args[1] > 0 THEN 1 ELSE -1)
  ELSE IF Len(args) = 2 THEN (IF args[2] < args[1] THEN -1 ELSE 1)
  ELSE args[2]
SeqLast(args) == args[Len(args)]
Between(x, a, b) == (a <= x /\ x <= b) \/ (b <= x /\ x <= a)

\* C24: for every argument list of integers of the machine's width, Seq
\* returns: nil, or a slice of 1 to 2000 integers whose i-th element is
\* first + i*inc, all between first and last inclusive; and it returns nil
\* for 0 or more than 3 arguments, a single 0, a zero increment, an
\* increment that points away from last, and last < -100000.
C24_SeqReturnsNilOrBoundedSlice ==
  (ret.op = "Seq" /\ ret.out.kind # "loop") =>
    /\ ret.out.kind \in {"nil", "slice"}
    /\ ret.out.kind = "slice" =>
         /\ Len(ret.out.seq) \in 1..SizeLimit
         /\ \A i \in DOMAIN ret.out.seq :
              /\ ret.out.seq[i] = SeqFirst(ret.args) + (i - 1) * SeqInc(ret.args)
              /\ Between(ret.out.seq[i], SeqFirst(ret.args), SeqLast(ret.args))
    /\ ( \/ Len(ret.args) \notin 1..3
         \/ ret.args = <<0>>
         \/ SeqInc(ret.args) = 0
         \/ SeqLast(ret.args) < -LastLimit
         \/ (SeqFirst(ret.args) < SeqLast(ret.args) /\ SeqInc(ret.args) < 0)
         \/ (SeqFirst(ret.args) > SeqLast(ret.args) /\ SeqInc(ret.args) > 0) )
       => ret.out.kind = "nil"

\* C26: Write terminates for every source content: after a resolution that
\* succeeds, the path chase from the root record ends at a record with
\* path = name and reads no name that is absent from the dependency set,
\* also when the declared paths form a cycle.
C26_PathChaseEnds ==
  ret.op = "Write" => status \notin {"hang", "panic"}

\* C27: every configuration call returns after finitely many cascade steps
\* for every parent relation SetParent can create, a theme that is its own
\* parent and two themes that are each other's parent included.
C27_ConfigurationCallsReturn ==
  ret.op \in ConfigOps \cup {"Clear"} => status # "overflow"

\* C28: after a configuration call on a theme that changes or re-applies
\* its state (SetFuncMap, AddFuncMap, SetParent, Clear, SetDebug with a
\* changed value) and returns, every ancestor on its parent chain, not only
\* the direct parent, has the theme's debug flag, the theme's registry and
\* an empty cache.
C28_CascadeReachesEveryAncestor ==
  ( /\ status = "run"
    /\ \/ ret.op \in {"SetFuncMap", "AddFuncMap", "SetParent", "Clear"}
       \/ (ret.op = "SetDebug" /\ ret.changed) ) =>
    \A u \in Ancestors(parent, ret.t) :
      /\ debug[u] = debug[ret.t]
      /\ funcMap[u] = funcMap[ret.t]
      /\ cache[u] = Empty

\* A SetFuncMap on t1, whose parent is t2 and whose grandparent is t3, with
\* a registry other than the one the three themes held: t3 holds it now.
C28_Witness ==
  /\ status = "run"
  /\ ret.op = "SetFuncMap" /\ ret.t = "t1"
  /\ parent["t1"] = "t2" /\ parent["t2"] = "t3"
  /\ ret.F # Empty /\ ret.was # ret.F
  /\ funcMap["t3"] = ret.F

\* C29: a call child.SetParent(p) with p not nil that returns leaves p with
\* the child's debug flag and the child's registry, whatever p held before,
\* and leaves the child's own flag and registry as they were.
C29_SetParentCopiesChildOntoParent ==
  [][ (ret'.op = "SetParent" /\ status' = "run" /\ parent'[ret'.t] # Nil) =>
        /\ debug'[parent'[ret'.t]] = debug'[ret'.t]
        /\ funcMap'[parent'[ret'.t]] = funcMap'[ret'.t]
        /\ debug'[ret'.t] = debug[ret'.t]
        /\ funcMap'[ret'.t] = funcMap[ret'.t] ]_vars

\* A SetParent that returned, on a child with debug on and a registry that
\* is not empty: the parent has both.
C29_Witness ==
  /\ status = "run"
  /\ ret.op = "SetParent"
  /\ parent[ret.t] # Nil
  /\ debug[ret.t] /\ funcMap[ret.t] # Empty
  /\ debug[parent[ret.t]] /\ funcMap[parent[ret.t]] = funcMap[ret.t]

\* C25: under every interleaving of a Write with a configuration call on
\* the same theme, once both calls have returned the cache holds no unit
\* compiled against the registry, debug flag or parent in force before the
\* change: every cached unit is the one a build would yield now, and none
\* is cached while debug is on.
C25_NoStaleUnitOnceBothReturned ==
  (procs.w.pc = "idle" /\ procs.c.todo = <<>> /\ status = "run") =>
    \A n \in DOMAIN cache[Shared] :
      /\ ~debug[Shared]
      /\ cache[Shared][n] = buildTemplate(Shared, n).unit

\* C30: a FuncMap() snapshot (the call by which a Write reads the registry
\* too) taken of a theme while a SetFuncMap(F) that reaches the theme (on
\* the theme itself, or on a child whose cascade overwrites it) is in
\* progress observes the complete registry the theme held when the call
\* began or the complete registry F, never an empty or partly filled one.
C30_RegistryObservedWhole ==
  ( /\ ret.op = "FuncMap"
    /\ ret.during.op = "SetFuncMap"
    /\ ret.t \in ret.during.reached ) =>
    ret.F \in {ret.during.was, ret.during.F}

\* C33: in every state reached by calls that do not overlap (Write,
\* SetDebug, SetFuncMap, AddFuncMap, SetParent, Clear) on themes linked by
\* parent references, a theme whose debug flag is on has an empty cache.
C33_DebugThemeHasEmptyCache ==
  \A t \in Themes : debug[t] => cache[t] = Empty

\* A Write that built and executed its unit on a theme whose debug flag is
\* on: the theme's cache is empty afterwards.
C33_Witness ==
  /\ ret.op = "Write" /\ ret.d /\ ret.err = NoErr /\ ~ret.hit
  /\ debug[ret.t]
  /\ cache[ret.t] = Empty

\* The names a record names as its dependencies: its declared path and its
\* references.
DependencyNames(item) == {item.path} \cup {item.refs[i] : i \in DOMAIN item.refs}

\* C32: during a resolution started on a child theme every dependency name
\* is looked up in the child's own source first, and in a parent only right
\* after the source of the theme below reported NotFound for it, also when
\* the record that names the dependency was supplied by the parent; a
\* record of the child therefore shadows the parent's record of the name.
C32_DependenciesLookedUpInChildFirst ==
  ret.op = "Write" =>
    /\ \A i \in DOMAIN ret.finds :
         \/ ret.finds[i][1] = ret.t
         \/ /\ i > 1
            /\ ret.finds[i - 1][2] = ret.finds[i][2]
            /\ parent[ret.finds[i - 1][1]] = ret.finds[i][1]
            /\ storage[ret.finds[i - 1][1]][ret.finds[i][2]].kind = "nf"
    /\ \A n \in DOMAIN buildTemplate(ret.t, ret.name).data :
         storage[ret.t][n].kind = "rec" =>
           buildTemplate(ret.t, ret.name).data[n].theme = ret.t

\* A Write on a child of a name only the parent has; the parent's record
\* names a dependency that both the child and the parent have: the set holds
\* the child's record and the parent was not asked for it.
C32_Witness ==
  /\ ret.op = "Write" /\ ret.err = NoErr /\ status = "run"
  /\ parent[ret.t] # Nil
  /\ storage[ret.t][ret.name].kind = "nf"
  /\ storage[parent[ret.t]][ret.name].kind = "rec"
  /\ \E n \in DependencyNames(buildTemplate(ret.t, ret.name).data[ret.name]) \ {ret.name} :
       /\ storage[ret.t][n].kind = "rec"
       /\ storage[parent[ret.t]][n].kind = "rec"
       /\ buildTemplate(ret.t, ret.name).data[n].theme = ret.t
       /\ \A i \in DOMAIN ret.finds : ret.finds[i] # <<parent[ret.t], n>>

\* What the resolver leaves for the Write recorded in ret.
Resolved == findByName(ret.t, [data |-> Empty, finds |-> <<>>, err |-> NoErr], ret.name)

\* The error buildTemplate returns when the root is absent from the set.
RootMissing ==
  [kinds |-> {NotFound}, theme |-> ret.t, name |-> ret.name, causes |-> <<>>]

\* C36: whenever the resolver returns without error for a root name N the
\* dependency set contains N, so Write never returns the assembler's
\* root-missing failure, whatever the sources do.
C36_RootIsInTheSet ==
  ret.op = "Write" =>
    /\ Resolved.err = NoErr => ret.name \in DOMAIN Resolved.data
    /\ ret.err # RootMissing

\* A Write whose resolution succeeded for a root that declares a path: the
\* set holds the root under its own name.
C36_Witness ==
  /\ ret.op = "Write"
  /\ Resolved.err = NoErr
  /\ ret.name \in DOMAIN Resolved.data
  /\ Resolved.data[ret.name].name = ret.name
  /\ Resolved.data[ret.name].path # ret.name

\* C34: with debug off, a Write whose resolution and assembly succeed
\* stores the unit before it executes it: when the execution fails the
\* error is returned, the unit is in the cache under the name, and the next
\* Write of the name executes the cached unit without calling the source
\* (and fails alike).
C34_UnitStoredBeforeExecution ==
  ( /\ ret.op = "Write" /\ status = "run"
    /\ ~ret.d
    /\ ret.err.kinds = {"Execution"} ) =>
    /\ ret.name \in DOMAIN cache[ret.t]
    /\ write(ret.t, ret.name).hit
    /\ write(ret.t, ret.name).finds = <<>>
    /\ write(ret.t, ret.name).err = ret.err

\* A Write with debug off that called the source, compiled the unit and
\* failed in the execution: the unit is cached.
C34_Witness ==
  /\ ret.op = "Write" /\ status = "run"
  /\ ~ret.d /\ ~ret.hit
  /\ ret.finds # <<>>
  /\ ret.err.kinds = {"Execution"}
  /\ ret.name \in DOMAIN cache[ret.t]

\* C35: a cache entry, once stored for a name, stays in the cache, as it
\* is, until a configuration call or Clear reaches the theme, directly or
\* through a descendant's cascade: a Write of the same or of another name,
\* whether it succeeds or fails, never removes it, and when entries go, the
\* whole cache of the theme goes.
C35_EntriesLeaveOnlyWithTheWholeCache ==
  [][ \A t \in Themes :
        (\E n \in DOMAIN cache[t] :
           n \notin DOMAIN cache'[t] \/ cache'[t][n] # cache[t][n]) =>
          /\ ret'.op \in ConfigOps \cup {"Clear"}
          /\ t \in Reached(parent', ret'.t)
          /\ cache'[t] = Empty ]_vars

\* A Write that failed on a theme whose cache holds the unit of another
\* name: the entry is still there.
C35_Witness ==
  /\ ret.op = "Write" /\ status = "run"
  /\ ret.err # NoErr
  /\ cache[ret.t] # Empty
  /\ ret.name \notin DOMAIN cache[ret.t]

\* A name the source serves: resolved, compiled and executed on its own,
\* it gives no error.
Served(t, name) ==
  LET b == buildTemplate(t, name)
  IN  b.err = NoErr /\ b.stop = "" /\ Execute(b.unit).err = NoErr

\* C31: with debug off and no configuration call, Writes of the shared
\* theme that overlap return no error for a name the source serves, every
\* unit in the cache is the one a build of its name gives, and once both
\* goroutines have returned the name of a successful Write is in the cache
\* and a further Write of it is served from the cache without a call to
\* the source.
C31_OverlappingWritesLeaveOneUnit ==
  /\ (ret.op = "Write" /\ Served(Shared, ret.name)) => ret.err = NoErr
  /\ \A n \in DOMAIN cache[Shared] :
       cache[Shared][n] = buildTemplate(Shared, n).unit
  /\ ( /\ \A w \in Writers : procs[w].pc = "idle"
       /\ ret.op = "Write" /\ ret.err = NoErr ) =>
        /\ ret.name \in DOMAIN cache[Shared]
        /\ write(Shared, ret.name).hit
        /\ write(Shared, ret.name).finds = <<>>
        /\ write(Shared, ret.name).err = NoErr

\* One goroutine has returned from a Write that missed the cache and called
\* the source, while the other has built and stored a unit of its own for
\* the same name and is about to execute it.
C31_Witness ==
  /\ ret.op = "Write" /\ ret.err = NoErr /\ ~ret.hit /\ ret.finds # <<>>
  /\ procs.w.pc = "idle"
  /\ procs.v.pc = "execute" /\ procs.v.name = ret.name
  /\ procs.v.finds # <<>>
  /\ procs.v.unit = cache[Shared][ret.name]

====
